---- MODULE Spec2Model ----
(***************************************************************************)
(* py-avro-schema: generation of Avro schemas from Python type             *)
(* descriptions (src/src/py_avro_schema/_schemas.py).                      *)
(*                                                                         *)
(* One top-level call schema(py_type, namespace, names, options) is a      *)
(* state machine: _schema_obj builds the tree of Schema objects eagerly    *)
(* (construction), then Schema.data(names) renders it depth-first while    *)
(* the names registry grows.  The pure parts (DecimalSchema.make_default,  *)
(* the handles_type predicates, UnionSchema.sort_item_schemas) are         *)
(* operators, exercised by specifications of their own.                    *)
(***************************************************************************)
EXTENDS Integers, Sequences, FiniteSets, TLC

VARIABLES
    pc,          \* position of the call: "start", "render", "done", "raised"
    classes,     \* the user's record classes: name -> [kind, module, fields]
    py_type,     \* the type description handed to the call
    namespace,   \* the namespace override: <<>> (None) or <<ns>>
    options,     \* the set of Option flags
    py_default,  \* the Python default value handed to make_default
    schema_obj,  \* the Schema object tree built by _schema_obj
    stack,       \* the pending data() calls, top first
    names,       \* the names registry (NamesType = List[str])
    doc,         \* the schema data emitted so far, as a token sequence
    ret,         \* the value returned by a method-level call
    depth,       \* the deepest level of nested calls reached so far
    error,       \* the exception raised, "none" if none
    cache,       \* the lru_cache of generate: the results of the calls that returned
    log          \* the outcomes of the generate calls made so far, in call order

vars == <<pc, classes, py_type, namespace, options, py_default, schema_obj,
          stack, names, doc, ret, depth, error, cache, log>>

-----------------------------------------------------------------------------
(* Bounds of the model *)

MaxPrecision == 4
MaxScale == 2
MaxDigits == 3
MaxNegExp == 3
MaxPosExp == 1
MaxDepth == 7
MaxFields == 3
MaxBranches == 3
MaxCalls == 3
MaxMembers == 3

-----------------------------------------------------------------------------
(* Python values *)

\* Optional[x]: None is <<>>, a value v is <<v>>
None == <<>>
Some(v) == <<v>>

NoError == "none"

RECURSIVE Pow(_, _)
Pow(b, e) == IF e = 0 THEN 1 ELSE b * Pow(b, e - 1)

\* int.bit_length() of a non-negative integer
RECURSIVE bit_length(_)
bit_length(n) == IF n = 0 THEN 0 ELSE 1 + bit_length(n \div 2)

\* whether v fits `length` bytes as a signed two's-complement integer
FitsSigned(v, length) ==
    IF length = 0 THEN v = 0
    ELSE (v \div Pow(2, 8 * length - 2)) \in -2..1

\* int.to_bytes(length, byteorder="big", signed=True); OverflowError when v does not fit
to_bytes(v, length) ==
    IF FitsSigned(v, length)
    THEN [ok |-> TRUE, bytes |-> [i \in 1..length |-> (v \div Pow(256, length - i)) % 256]]
    ELSE [ok |-> FALSE, bytes |-> <<>>]

HexChars == <<"0", "1", "2", "3", "4", "5", "6", "7", "8", "9", "a", "b", "c", "d", "e", "f">>

\* bytes.hex(): two lowercase hexadecimal characters per byte
RECURSIVE hex(_)
hex(bytes) ==
    IF bytes = <<>> THEN <<>>
    ELSE <<HexChars[(Head(bytes) \div 16) + 1], HexChars[(Head(bytes) % 16) + 1]>>
         \o hex(Tail(bytes))

\* decimal.Decimal values, as their as_tuple(): sign, digits, exponent
DigitSet == {0, 1, 2, 3, 4, 8}

DigitTuples ==
    UNION {{d \in [1..n -> DigitSet] : n > 1 => d[1] # 0} : n \in 1..MaxDigits}

Decimals ==
    [vt : {"Decimal"}, sign : {0, 1}, digits : DigitTuples, exp : (0 - MaxNegExp)..MaxPosExp]

Decimal(sign, digits, exp) == [vt |-> "Decimal", sign |-> sign, digits |-> digits, exp |-> exp]

\* other Python values, each tagged with the name of its class
PyNone == [vt |-> "NoneType"]
PyStr(s) == [vt |-> "str", s |-> s]
PyInt(i) == [vt |-> "int", i |-> i]
PyBool(b) == [vt |-> "bool", b |-> b]

\* datetime.time(hour, minute, second, microsecond)
PyTime(hour, minute, second, microsecond) ==
    [vt |-> "time", hour |-> hour, minute |-> minute, second |-> second,
     microsecond |-> microsecond]

\* a datetime.datetime: whether it has a tzinfo, and the instant it denotes
\* as microseconds since 1970-01-01T00:00:00Z (wall clock, if it has none)
PyDatetime(aware, epoch_microseconds) ==
    [vt |-> "datetime", aware |-> aware, epoch_microseconds |-> epoch_microseconds]

\* a datetime.timedelta
PyTimedelta == [vt |-> "timedelta"]

\* a datetime.date, by its proleptic Gregorian ordinal (date.toordinal())
PyDate(ordinal) == [vt |-> "date", ordinal |-> ordinal]

\* a uuid.UUID
PyUUID == [vt |-> "UUID"]

\* a list, with its items
PyList(items) == [vt |-> "list", items |-> items]

\* dataclasses.MISSING: no default declared
MISSING == [vt |-> "MISSING"]

-----------------------------------------------------------------------------
(* Python type descriptions *)

\* A type description: a class (by name), a generic alias origin[args], an
\* Annotated[base, metadata...], a string instance, a ForwardRef object, or
\* another object that is no class (None, the special form typing.Union).
\* `ints` holds the integer parameters of DecimalType[p, s], `meta` the
\* metadata of Annotated.
Ty(tag, name, args, ints, meta) ==
    [tag |-> tag, name |-> name, args |-> args, ints |-> ints, meta |-> meta]

Class(name) == Ty("class", name, <<>>, <<>>, <<>>)
Alias(origin, args) == Ty("alias", origin, args, <<>>, <<>>)
Annotated(base, meta) == Ty("annotated", "Annotated", <<base>>, <<>>, meta)
Str(value) == Ty("str", value, <<>>, <<>>, <<>>)
ForwardRef(arg) == Ty("fwdref", arg, <<>>, <<>>, <<>>)
Object(name) == Ty("object", name, <<>>, <<>>, <<>>)

NoneObj == Object("None")
AnyType == Class("Any")
NoneType == Class("NoneType")

\* typing.Optional[t]
Optional(t) == Alias("Union", <<t, NoneType>>)

\* py_avro_schema.DecimalMeta(precision, scale=None)
DecimalMeta(precision, scale) == [kind |-> "DecimalMeta", precision |-> precision, scale |-> scale]

\* some other Annotated metadata object
OtherMeta == [kind |-> "other", precision |-> 0, scale |-> None]

\* the deprecated py_avro_schema.DecimalType[precision, scale]
DecimalType(precision, scale) == Ty("alias", "Decimal", <<>>, <<precision, scale>>, <<>>)

\* typing.get_origin: the origin object, None when there is none
get_origin(t) ==
    CASE t.tag = "alias" /\ t.name = "Union" -> Object("Union")
      [] t.tag = "alias" -> Class(t.name)
      [] t.tag = "annotated" -> Class("Annotated")
      [] OTHER -> NoneObj

\* typing.get_args (the integer arguments of DecimalType[p, s] are t.ints)
get_args(t) == IF t.tag = "annotated" THEN t.args \o t.meta ELSE t.args

\* len(get_args(t))
NumArgs(t) == Len(get_args(t)) + Len(t.ints)

-----------------------------------------------------------------------------
(* Classes: the builtin and library classes, and the user's classes *)

\* what reflection tells about a class: its __name__, its module (dotted
\* path, as segments), its superclasses (itself and registered ABCs
\* included), its kind, its fields (records), its member values (enums) and
\* whether get_type_hints(cls.__init__) is empty, non-empty or fails, and
\* its docstring as inspect.getdoc returns it
ClassInfo(kind, name, module, bases, fields, symbols, init_hints, docstring) ==
    [kind |-> kind, name |-> name, module |-> module, bases |-> bases,
     fields |-> fields, symbols |-> symbols, init_hints |-> init_hints,
     docstring |-> docstring]

\* a field of a record class: a dataclass field, a Pydantic model field (with
\* its alias and description) or a parameter of a plain class's __init__
Field(name, type, default) ==
    [name |-> name, type |-> type, default |-> default, alias |-> "", description |-> ""]

Builtin(name, module, bases) ==
    ClassInfo("builtin", name, module, bases \cup {name, "object"}, <<>>, <<>>, "none", "")

BuiltinNames ==
    {"bool", "bytes", "float", "int", "str", "NoneType", "UUID", "date", "datetime",
     "time", "timedelta", "Decimal", "Any", "dict", "list", "tuple", "set", "Mapping",
     "Sequence", "UnionType", "Annotated", "object"}

Builtins ==
    [n \in BuiltinNames |->
        CASE n = "bool" -> Builtin(n, <<"builtins">>, {"int"})
          [] n = "UUID" -> Builtin(n, <<"uuid">>, {})
          [] n \in {"date", "time", "timedelta"} -> Builtin(n, <<"datetime">>, {})
          [] n = "datetime" -> Builtin(n, <<"datetime">>, {"date"})
          [] n = "Decimal" -> Builtin(n, <<"decimal">>, {})
          [] n \in {"Any", "Annotated"} -> Builtin(n, <<"typing">>, {})
          [] n = "UnionType" -> Builtin(n, <<"types">>, {})
          [] n = "dict" -> Builtin(n, <<"builtins">>, {"Mapping"})
          [] n \in {"list", "tuple"} -> Builtin(n, <<"builtins">>, {"Sequence"})
          [] n = "str" -> Builtin(n, <<"builtins">>, {"Sequence"})
          [] n = "bytes" -> Builtin(n, <<"builtins">>, {"Sequence"})
          [] n \in {"Mapping", "Sequence"} -> Builtin(n, <<"collections", "abc">>, {})
          [] OTHER -> Builtin(n, <<"builtins">>, {})]

\* the class object named c: one of the user's classes, or a builtin
Info(c) == IF c \in DOMAIN classes THEN classes[c] ELSE Builtins[c]

IsKnownClass(c) == c \in DOMAIN classes \/ c \in BuiltinNames

\* inspect.isclass
isclass(t) == t.tag = "class"

\* issubclass(t, of) for a class t
issubclass(t, of) == of \in Info(t.name).bases

\* _type_from_annotated: the principal type of Annotated[principal, ...]
_type_from_annotated(t) ==
    IF get_origin(t) = Class("Annotated") /\ get_args(t) # <<>> THEN get_args(t)[1] ELSE t

\* _is_class
_is_class(t, of_type, include_subclasses) ==
    LET p == _type_from_annotated(t)
    IN  IF include_subclasses
        THEN isclass(p) /\ issubclass(p, of_type)
        ELSE p = Class(of_type)

\* dataclasses.is_dataclass
is_dataclass(t) == isclass(t) /\ Info(t.name).kind = "dataclass"

\* hasattr(t, "__fields__"): a Pydantic model class
has_fields(t) == isclass(t) /\ Info(t.name).kind = "pydantic"

\* _is_dict_str_any
_is_dict_str_any(t) ==
    LET origin == get_origin(t)
    IN  isclass(origin) /\ issubclass(origin, "dict") /\ get_args(t) = <<Class("str"), AnyType>>

\* _is_list_dict_str_any
_is_list_dict_str_any(t) ==
    LET origin == get_origin(t)
    IN  IF NumArgs(t) > 0
        THEN isclass(origin) /\ issubclass(origin, "list") /\ _is_dict_str_any(get_args(t)[1])
        ELSE FALSE

-----------------------------------------------------------------------------
(* The handles_type predicates of the concrete Schema classes.  Each gives   *)
(* the boolean returned, or the exception the test raises.                   *)

Returns(b) == [error |-> NoError, value |-> b]
Raises(e) == [error |-> e, value |-> FALSE]

\* PrimitiveSchema.primitive_types: (Python type, include subclasses, Avro schema)
primitive_types ==
    << [type |-> "bool", include_subclasses |-> TRUE, data |-> "boolean"],
       [type |-> "bytes", include_subclasses |-> TRUE, data |-> "bytes"],
       [type |-> "float", include_subclasses |-> TRUE, data |-> "double"],
       [type |-> "int", include_subclasses |-> TRUE, data |-> "long"],
       [type |-> "str", include_subclasses |-> FALSE, data |-> "string"],
       [type |-> "NoneType", include_subclasses |-> FALSE, data |-> "null"] >>

PrimitiveSchema_handles_type(t) ==
    Returns(\E i \in 1..Len(primitive_types) :
                _is_class(t, primitive_types[i].type, primitive_types[i].include_subclasses))

StrSubclassSchema_handles_type(t) ==
    Returns(/\ isclass(t)
            /\ issubclass(t, "str")
            /\ t # Class("str")
            /\ ~issubclass(t, "Enum"))

DictAsJSONSchema_handles_type(t) ==
    Returns(_is_dict_str_any(t) \/ _is_list_dict_str_any(t))

UUIDSchema_handles_type(t) == Returns(_is_class(t, "UUID", TRUE))

DateSchema_handles_type(t) ==
    Returns(_is_class(t, "date", TRUE) /\ ~_is_class(t, "datetime", TRUE))

TimeSchema_handles_type(t) == Returns(_is_class(t, "time", TRUE))

DateTimeSchema_handles_type(t) == Returns(_is_class(t, "datetime", TRUE))

TimeDeltaSchema_handles_type(t) == Returns(_is_class(t, "timedelta", TRUE))

\* isinstance(py_type, (str, ForwardRef))
ForwardSchema_handles_type(t) == Returns(t.tag \in {"str", "fwdref"})

DecimalSchema_handles_type(t) ==
    Returns(_is_class(t, "Decimal", TRUE) \/ get_origin(t) = Class("Decimal"))

SequenceSchema_handles_type(t) ==
    Returns(_is_class(get_origin(_type_from_annotated(t)), "Sequence", TRUE))

\* `_is_class(origin, Mapping) and args[1] != Any`: args[1] is an IndexError
\* when the mapping has fewer than two arguments
DictSchema_handles_type(t) ==
    LET p == _type_from_annotated(t)
    IN  IF ~_is_class(get_origin(p), "Mapping", TRUE) THEN Returns(FALSE)
        ELSE IF NumArgs(p) < 2 THEN Raises("IndexError")
        ELSE Returns(get_args(p)[2] # AnyType)

UnionSchema_handles_type(t) ==
    Returns(get_origin(_type_from_annotated(t)) \in {Object("Union"), Class("UnionType")})

EnumSchema_handles_type(t) == Returns(_is_class(t, "Enum", TRUE))

DataclassSchema_handles_type(t) == Returns(is_dataclass(_type_from_annotated(t)))

PydanticSchema_handles_type(t) == Returns(has_fields(_type_from_annotated(t)))

\* the last conjunct, bool(get_type_hints(py_type.__init__)), raises NameError
\* when a hint of __init__ cannot be resolved
PlainClassSchema_handles_type(t) ==
    LET p == _type_from_annotated(t)
    IN  IF is_dataclass(p) \/ has_fields(p) THEN Returns(FALSE)
        ELSE IF ~(isclass(p) /\ ~issubclass(p, "str")) THEN Returns(FALSE)
        ELSE IF Info(p.name).init_hints = "NameError" THEN Raises("NameError")
        ELSE Returns(Info(p.name).init_hints = "typed")

\* the concrete Schema subclasses of the module, in the order of
\* inspect.getmembers (sorted by name), which is the order _schema_obj tries
schema_classes ==
    << "DataclassSchema", "DateSchema", "DateTimeSchema", "DecimalSchema",
       "DictAsJSONSchema", "DictSchema", "EnumSchema", "ForwardSchema",
       "PlainClassSchema", "PrimitiveSchema", "PydanticSchema", "SequenceSchema",
       "StrSubclassSchema", "TimeDeltaSchema", "TimeSchema", "UUIDSchema", "UnionSchema" >>

\* cls.handles_type(py_type), as called by Schema.__new__
handles_type(cls, t) ==
    CASE cls = "DataclassSchema" -> DataclassSchema_handles_type(t)
      [] cls = "DateSchema" -> DateSchema_handles_type(t)
      [] cls = "DateTimeSchema" -> DateTimeSchema_handles_type(t)
      [] cls = "DecimalSchema" -> DecimalSchema_handles_type(t)
      [] cls = "DictAsJSONSchema" -> DictAsJSONSchema_handles_type(t)
      [] cls = "DictSchema" -> DictSchema_handles_type(t)
      [] cls = "EnumSchema" -> EnumSchema_handles_type(t)
      [] cls = "ForwardSchema" -> ForwardSchema_handles_type(t)
      [] cls = "PlainClassSchema" -> PlainClassSchema_handles_type(t)
      [] cls = "PrimitiveSchema" -> PrimitiveSchema_handles_type(t)
      [] cls = "PydanticSchema" -> PydanticSchema_handles_type(t)
      [] cls = "SequenceSchema" -> SequenceSchema_handles_type(t)
      [] cls = "StrSubclassSchema" -> StrSubclassSchema_handles_type(t)
      [] cls = "TimeDeltaSchema" -> TimeDeltaSchema_handles_type(t)
      [] cls = "TimeSchema" -> TimeSchema_handles_type(t)
      [] cls = "UUIDSchema" -> UUIDSchema_handles_type(t)
      [] cls = "UnionSchema" -> UnionSchema_handles_type(t)

\* the loop of _schema_obj from the i-th class on: the first class whose
\* handles_type is true, the exception a test raises on the way, or
\* TypeNotSupportedError when the classes are exhausted
RECURSIVE Dispatch(_, _)
Dispatch(t, i) ==
    IF i > Len(schema_classes)
    THEN [error |-> "TypeNotSupportedError", cls |-> ""]
    ELSE LET h == handles_type(schema_classes[i], t)
         IN  IF h.error # NoError THEN [error |-> h.error, cls |-> ""]
             ELSE IF h.value THEN [error |-> NoError, cls |-> schema_classes[i]]
             ELSE Dispatch(t, i + 1)

-----------------------------------------------------------------------------
(* Construction: _schema_obj and the __init__ methods build the tree of     *)
(* Schema objects eagerly                                                   *)

\* typeguard.check_type(value, type): whether the value passes.  A class
\* accepts its instances (float also accepts int), a union what one of its
\* members accepts, Annotated what its principal type accepts, a generic
\* alias the instances of its origin (of a list, the first item is checked
\* against the item type: the default collection check strategy); a forward
\* reference that cannot be resolved is not checked.
RECURSIVE check_type(_, _)
check_type(v, t) ==
    CASE t.tag = "class" ->
            \/ t.name \in {"Any", "object"}
            \/ t.name \in Info(v.vt).bases
            \/ (t.name = "float" /\ "int" \in Info(v.vt).bases)
      [] t.tag = "annotated" -> check_type(v, t.args[1])
      [] t.tag = "alias" /\ t.name \in {"Union", "UnionType"} ->
            \E i \in 1..Len(t.args) : check_type(v, t.args[i])
      [] t.tag = "alias" ->
            /\ t.name \in Info(v.vt).bases
            /\ (v.vt = "list" /\ v.items # <<>> /\ t.args # <<>>) =>
                   check_type(v.items[1], t.args[1])
      [] t.tag = "object" -> t = NoneObj /\ v.vt = "NoneType"
      [] OTHER -> TRUE

\* a Schema object: its class, the type it was built for, and what its
\* __init__ stored (name, nested schemas, record fields, enum symbols)
Node(cls, t, name, items, record_fields, symbols) ==
    [cls |-> cls, py_type |-> t, name |-> name, items |-> items,
     record_fields |-> record_fields, symbols |-> symbols]

Leaf(cls, t) == Node(cls, t, "", <<>>, <<>>, <<>>)

NoNode == Leaf("", NoneObj)

\* the outcome of a construction: the object built or the exception raised,
\* and the deepest level of nested _schema_obj calls it reached
Built(node, level) == [error |-> NoError, node |-> node, depth |-> level]
Failed(e, level) == [error |-> e, node |-> NoNode, depth |-> level]

Max(a, b) == IF a > b THEN a ELSE b

RECURSIVE MaxOver(_, _, _)
MaxOver(rs, n, acc) == IF n = 0 THEN acc ELSE MaxOver(rs, n - 1, Max(acc, rs[n].depth))

\* UnionSchema.sort_item_schemas: the first item schema whose type accepts
\* the default is moved to the front
DefaultIndex(item_schemas, default_value) ==
    IF \E i \in 1..Len(item_schemas) : check_type(default_value, item_schemas[i].py_type)
    THEN CHOOSE i \in 1..Len(item_schemas) :
            /\ check_type(default_value, item_schemas[i].py_type)
            /\ \A j \in 1..(i - 1) : ~check_type(default_value, item_schemas[j].py_type)
    ELSE 0

MoveToFront(seq, i) == <<seq[i]>> \o SubSeq(seq, 1, i - 1) \o SubSeq(seq, i + 1, Len(seq))

sort_item_schemas_unsorted(item_schemas, default_value) == item_schemas

sort_item_schemas(item_schemas, default_value) ==
    LET default_index == DefaultIndex(item_schemas, default_value)
    IN  IF default_index > 1 THEN MoveToFront(item_schemas, default_index) ELSE item_schemas

\* iterating an Enum class: the member values in declaration order, a member
\* that repeats an earlier value being an alias that iteration skips
\* every declared member is taken, aliases included
MemberValues_all(values, seen) == values

RECURSIVE MemberValues(_, _)
MemberValues(values, seen) ==
    IF values = <<>> THEN <<>>
    ELSE IF Head(values) \in seen THEN MemberValues(Tail(values), seen)
    ELSE <<Head(values)>> \o MemberValues(Tail(values), seen \cup {Head(values)})

FieldTypes(fields) == [i \in 1..Len(fields) |-> fields[i].type]

\* the types for which a class's __init__ calls _schema_obj, in call order
NestedTypes_resolving(cls, t) ==
    LET p == _type_from_annotated(t)
    IN  CASE cls = "SequenceSchema" -> <<get_args(p)[1]>>
          [] cls = "DictSchema" -> <<get_args(p)[2]>>
          [] cls = "UnionSchema" -> get_args(p)
          [] cls \in {"DataclassSchema", "PydanticSchema", "PlainClassSchema"} ->
                FieldTypes(Info(p.name).fields)
          [] cls = "ForwardSchema" /\ IsKnownClass(t.name) -> <<Class(t.name)>>
          [] OTHER -> <<>>

NestedTypes(cls, t) ==
    LET p == _type_from_annotated(t)
    IN  CASE cls = "SequenceSchema" -> <<get_args(p)[1]>>
          [] cls = "DictSchema" -> <<get_args(p)[2]>>
          [] cls = "UnionSchema" -> get_args(p)
          [] cls \in {"DataclassSchema", "PydanticSchema", "PlainClassSchema"} ->
                FieldTypes(Info(p.name).fields)
          [] OTHER -> <<>>

\* __init__ checks nothing: map keys and enum members are left to rendering
InitGuard_deferred(cls, t) == NoError

\* what __init__ checks before it builds the nested schemas: "" or the exception
InitGuard(cls, t) ==
    LET p == _type_from_annotated(t)
    IN  CASE cls = "SequenceSchema" /\ NumArgs(p) = 0 -> "IndexError"
          [] cls = "DictSchema" /\ get_args(p)[1] # Class("str") ->
                "TypeError: non-string keys"
          [] cls = "EnumSchema"
             /\ {v.vt : v \in {Info(p.name).symbols[i] : i \in DOMAIN Info(p.name).symbols}} # {"str"} ->
                "TypeError: enum members must be strings"
          [] OTHER -> NoError

\* RecordField.__init__ after self.schema is built: the union is sorted by
\* the default, the default is type-checked, a missing default is refused
\* under DEFAULTS_MANDATORY
RecordField(cls, f, schema) ==
    [name |-> IF cls = "PydanticSchema" /\ "USE_FIELD_ALIAS" \in options /\ f.alias # ""
              THEN f.alias ELSE f.name,
     py_type |-> f.type, default |-> f.default,
     docs |-> IF cls = "PydanticSchema" THEN f.description ELSE "",
     schema |-> IF f.default # MISSING /\ schema.cls = "UnionSchema"
                THEN [schema EXCEPT !.items = sort_item_schemas(@, f.default)]
                ELSE schema]

\* the option DEFAULTS_MANDATORY is not looked at
RecordFieldGuard_lenient(f) ==
    IF f.default # MISSING
    THEN (IF check_type(f.default, f.type) THEN NoError ELSE "TypeCheckError")
    ELSE NoError

RecordFieldGuard(f) ==
    IF f.default # MISSING
    THEN (IF check_type(f.default, f.type) THEN NoError ELSE "TypeCheckError")
    ELSE (IF "DEFAULTS_MANDATORY" \in options THEN "TypeError: default missing" ELSE NoError)

RecordClasses == {"DataclassSchema", "PydanticSchema", "PlainClassSchema"}

\* what RecordField.__init__ raises for each field once its schema is built
\* (no error for the nested schemas of the other classes)
FieldGuards(cls, t) ==
    IF cls \in RecordClasses
    THEN [i \in DOMAIN Info(_type_from_annotated(t).name).fields |->
             RecordFieldGuard(Info(_type_from_annotated(t).name).fields[i])]
    ELSE [i \in DOMAIN NestedTypes(cls, t) |-> NoError]

\* __init__ of the RecordSchema subclasses, given the outcomes rs of the
\* construction of the fields
RecordSchema_init(cls, t, d, fields, rs) ==
    Built(Node(cls, t, Info(_type_from_annotated(t).name).name, <<>>,
               [i \in 1..Len(fields) |-> RecordField(cls, fields[i], rs[i].node)],
               <<>>),
          MaxOver(rs, Len(rs), d))

\* EnumSchema.__init__
EnumSchema_init(cls, t, d, info) ==
    Built(Node(cls, t, info.name, <<>>, <<>>, MemberValues(info.symbols, {})), d)

\* the __init__ of the class found, given the outcomes rs of its nested
\* _schema_obj calls, of which the last is the one that raised, if any
SchemaClass_init(cls, t, d, rs) ==
    IF rs # <<>> /\ rs[Len(rs)].error # NoError
    THEN Failed(rs[Len(rs)].error, MaxOver(rs, Len(rs), d))
    ELSE IF cls \in RecordClasses
    THEN RecordSchema_init(cls, t, d, Info(_type_from_annotated(t).name).fields, rs)
    ELSE IF cls = "EnumSchema"
    THEN EnumSchema_init(cls, t, d, Info(_type_from_annotated(t).name))
    ELSE Built(Node(cls, t, "", [i \in DOMAIN rs |-> rs[i].node], <<>>, <<>>),
               MaxOver(rs, Len(rs), d))

RECURSIVE _schema_obj(_, _)
RECURSIVE NestedSchemas(_, _, _, _)

\* the i-th nested schema is built with outcome r: an exception (its own, or
\* of the record field's checks) ends the construction, else the next is built
NestedSchemas_next(types, guards, i, d, r) ==
    IF r.error # NoError THEN <<r>>
    ELSE IF guards[i] # NoError THEN <<Failed(guards[i], r.depth)>>
    ELSE <<r>> \o NestedSchemas(types, guards, i + 1, d)

\* the outcomes of the nested _schema_obj calls of an __init__ from the i-th
\* on, in call order, up to the first that raises
NestedSchemas(types, guards, i, d) ==
    IF i > Len(types) THEN <<>>
    ELSE CHOOSE outcomes \in {NestedSchemas_next(types, guards, i, d, r) :
                                 r \in {_schema_obj(types[i], d + 1)}} : TRUE

\* Schema.__new__ and __init__ of the class that dispatch found
SchemaClass_new(t, d, found) ==
    IF found.error # NoError THEN Failed(found.error, d)
    ELSE IF InitGuard(found.cls, t) # NoError THEN Failed(InitGuard(found.cls, t), d)
    ELSE CHOOSE outcome \in
            {SchemaClass_init(found.cls, t, d, rs) :
                rs \in {NestedSchemas(NestedTypes(found.cls, t), FieldGuards(found.cls, t), 1, d)}} :
            TRUE

\* the loop of _schema_obj over the schema classes, then the class found
SchemaClass_dispatch(t, d) ==
    CHOOSE outcome \in {SchemaClass_new(t, d, found) : found \in {Dispatch(t, 1)}} : TRUE

\* _schema_obj at nesting level d (the arguments are bound once, as values)
_schema_obj(t, d) ==
    IF d > MaxDepth THEN Failed("RecursionError", d)
    ELSE CHOOSE outcome \in {SchemaClass_dispatch(type, level) : type \in {t}, level \in {d}} :
            TRUE

-----------------------------------------------------------------------------
(* DecimalSchema: the decimal annotation and the default encoder *)

\* DecimalMeta.__post_init__: precision >= 1, 0 <= scale <= precision
DecimalMetaValid(precision, scale) ==
    /\ precision >= 1
    /\ scale # None => (scale[1] >= 0 /\ scale[1] <= precision)

\* DecimalSchema._validate_meta_tuple: a tuple of two integers
_validate_meta_tuple(tuple_) == Len(tuple_) = 2

\* DecimalSchema._decimal_meta: the DecimalMeta of a type, or the error raised
_decimal_meta(t) ==
    LET origin == get_origin(t)
        args == get_args(t)
    IN  IF origin = Class("Annotated") /\ args # <<>> /\ args[1] = Class("Decimal")
        THEN LET found == SelectSeq(Tail(args), LAMBDA m : m.kind = "DecimalMeta")
             IN  IF Len(found) = 1
                 THEN [error |-> NoError, meta |-> found[1]]
                 ELSE [error |-> "TypeError: not annotated with a single DecimalMeta",
                       meta |-> DecimalMeta(0, None)]
        ELSE IF origin = Class("Decimal")
        THEN IF ~_validate_meta_tuple(t.ints)
             THEN [error |-> "TypeError: not annotated with (precision, scale)",
                   meta |-> DecimalMeta(0, None)]
             ELSE IF ~DecimalMetaValid(t.ints[1], Some(t.ints[2]))
             THEN [error |-> "ValueError: invalid DecimalMeta", meta |-> DecimalMeta(0, None)]
             ELSE [error |-> NoError, meta |-> DecimalMeta(t.ints[1], Some(t.ints[2]))]
        ELSE [error |-> "TypeError: not a decimal type", meta |-> DecimalMeta(0, None)]

\* `meta.scale or 0`
ScaleOrZero(meta) == IF meta.scale = None THEN 0 ELSE meta.scale[1]

\* the loop `unscaled_datum = (unscaled_datum * 10) + digit`
RECURSIVE DigitsValue(_, _)
DigitsValue(acc, digits) ==
    IF digits = <<>> THEN acc ELSE DigitsValue(acc * 10 + Head(digits), Tail(digits))

\* `bytes_req = (unscaled_datum.bit_length() + 8) // 8`
bytes_req(unscaled_datum) == (bit_length(unscaled_datum) + 8) \div 8

\* `10**delta * unscaled_datum`
ScaleUp_dropped(delta, unscaled_datum) == unscaled_datum
ScaleUp(delta, unscaled_datum) == Pow(10, delta) * unscaled_datum

\* the value handed to to_bytes: negated `if sign`
ApplySign(sign, unscaled_datum) == IF sign # 0 THEN 0 - unscaled_datum ELSE unscaled_datum

\* `len(digits) > meta.precision`
PrecisionExceeded_ge(digits, meta) == Len(digits) >= meta.precision
PrecisionExceeded(digits, meta) == Len(digits) > meta.precision

\* r"\u" + bytes.hex()
EscapeU(bytes) == <<"\\", "u">> \o hex(bytes)

\* DecimalSchema.make_default: the encoded default, or the error raised
DecimalSchema_make_default(t, d) ==
    LET m == _decimal_meta(t)
        meta == m.meta
        scale == ScaleOrZero(meta)
        delta == d.exp + scale
        unscaled_datum == ScaleUp(delta, DigitsValue(0, d.digits))
        enc == to_bytes(ApplySign(d.sign, unscaled_datum), bytes_req(unscaled_datum))
    IN  IF m.error # NoError THEN [error |-> m.error, value |-> <<>>]
        ELSE IF PrecisionExceeded(d.digits, meta)
        THEN [error |-> "ValueError: precision", value |-> <<>>]
        ELSE IF delta < 0
        THEN [error |-> "ValueError: scale", value |-> <<>>]
        ELSE IF ~enc.ok
        THEN [error |-> "OverflowError", value |-> <<>>]
        ELSE [error |-> NoError, value |-> EscapeU(enc.bytes)]

-----------------------------------------------------------------------------
(* Namespaces, full names and the data of the schemas without nested schemas *)

RECURSIVE Join(_)
Join(segments) ==
    IF Len(segments) = 1 THEN segments[1]
    ELSE segments[1] \o "." \o Join(Tail(segments))

\* inspect.getmodule: the module named by __module__, which is the module of
\* a class, of the principal type for Annotated[principal, ...] (the alias
\* copies its origin's __module__), typing for another typing alias
getmodule(t) ==
    CASE t.tag = "class" -> Some(Info(t.name).module)
      [] t.tag = "annotated" /\ t.args[1].tag = "class" -> Some(Info(t.args[1].name).module)
      [] t.tag \in {"alias", "annotated"} -> Some(<<"typing">>)
      [] OTHER -> None

\* Schema.namespace: the override, else the name of the module or of its
\* top-level package
\* AUTO_NAMESPACE_MODULE is looked at before NO_AUTO_NAMESPACE
Schema_namespace_module_first(t) ==
    IF namespace = None /\ getmodule(t) # None /\ "AUTO_NAMESPACE_MODULE" \in options
    THEN Some(Join(getmodule(t)[1]))
    ELSE IF namespace = None /\ "NO_AUTO_NAMESPACE" \notin options /\ getmodule(t) # None
    THEN Some(getmodule(t)[1][1])
    ELSE namespace

Schema_namespace(t) ==
    IF namespace = None /\ "NO_AUTO_NAMESPACE" \notin options
    THEN LET module == getmodule(t)
         IN  IF module # None /\ Join(module[1]) # "builtin"
             THEN (IF "AUTO_NAMESPACE_MODULE" \in options
                   THEN Some(Join(module[1]))
                   ELSE Some(module[1][1]))
             ELSE namespace
    ELSE namespace

\* truth value of an Optional[str]
Truthy(s) == s # None /\ s # Some("")

\* NamedSchema.fullname
\* the name alone, whatever the namespace
fullname_bare(node) == node.name

fullname(node) ==
    LET ns == Schema_namespace(node.py_type)
    IN  IF Truthy(ns) THEN ns[1] \o "." \o node.name ELSE node.name

\* _doc_for_class: the first paragraph of the docstring
_doc_for_class(t) ==
    IF t.tag = "class" THEN Info(t.name).docstring
    ELSE "Runtime representation of an annotated type."

\* the "doc" attribute of a named schema: absent under NO_DOC or without docstring
DocAttribute(t) ==
    IF "NO_DOC" \notin options /\ _doc_for_class(t) # "" THEN Some(_doc_for_class(t)) ELSE None

\* a JSON string in the document, and the Schema class whose data() returned it
StrToken(v, by) == [k |-> "str", v |-> v, by |-> by]

\* a JSON object without nested schemas
ObjToken(type, logicalType, by) ==
    [k |-> "obj", type |-> type, logicalType |-> logicalType, by |-> by]

\* PrimitiveSchema.data
PrimitiveSchema_data(t) ==
    IF "INT_32" \in options /\ ~isclass(t) THEN Raises("TypeError")
    ELSE IF "INT_32" \in options /\ issubclass(t, "int") THEN Returns("int")
    ELSE IF "FLOAT_32" \in options /\ ~isclass(t) THEN Raises("TypeError")
    ELSE IF "FLOAT_32" \in options /\ issubclass(t, "float") THEN Returns("float")
    ELSE LET i == CHOOSE i \in 1..Len(primitive_types) :
                    /\ _is_class(t, primitive_types[i].type, primitive_types[i].include_subclasses)
                    /\ \A j \in 1..(i - 1) :
                          ~_is_class(t, primitive_types[j].type, primitive_types[j].include_subclasses)
         IN  Returns(primitive_types[i].data)

\* ForwardSchema.data: the string literal, or the ForwardRef's __forward_arg__
ForwardSchema_data_repr(t) == "ForwardRef('" \o t.name \o "')"

ForwardSchema_data(t) == t.name

\* StrSubclassSchema.data
StrSubclassSchema_data(t) ==
    LET ns == Schema_namespace(t)
    IN  [k |-> "obj", type |-> "string", logicalType |-> "", by |-> "StrSubclassSchema",
         namedString |-> IF Truthy(ns) THEN ns[1] \o "." \o Info(t.name).name
                         ELSE Info(t.name).name]

\* DecimalSchema.data
DecimalSchema_data(t) ==
    LET m == _decimal_meta(t)
    IN  IF m.error # NoError THEN Raises(m.error)
        ELSE Returns([k |-> "obj", type |-> "bytes", logicalType |-> "decimal",
                      by |-> "DecimalSchema", precision |-> m.meta.precision,
                      scale |-> m.meta.scale])

\* data() of the classes without nested schemas: the token, or the exception
LeafData(node) ==
    LET cls == node.cls
        t == node.py_type
    IN  CASE cls = "PrimitiveSchema" ->
                LET r == PrimitiveSchema_data(t)
                IN  IF r.error # NoError THEN r ELSE Returns(StrToken(r.value, cls))
          [] cls = "ForwardSchema" -> Returns(StrToken(ForwardSchema_data(t), cls))
          [] cls = "StrSubclassSchema" -> Returns(StrSubclassSchema_data(t))
          [] cls = "DictAsJSONSchema" ->
                Returns(ObjToken(IF "LOGICAL_JSON_STRING" \in options THEN "string" ELSE "bytes",
                                 "json", cls))
          [] cls = "UUIDSchema" -> Returns(ObjToken("string", "uuid", cls))
          [] cls = "DateSchema" -> Returns(ObjToken("int", "date", cls))
          [] cls = "TimeSchema" ->
                Returns(IF "MILLISECONDS" \in options
                        THEN ObjToken("int", "time-millis", cls)
                        ELSE ObjToken("long", "time-micros", cls))
          [] cls = "DateTimeSchema" ->
                Returns(ObjToken("long",
                                 IF "MILLISECONDS" \in options THEN "timestamp-millis"
                                 ELSE "timestamp-micros", cls))
          [] cls = "TimeDeltaSchema" ->
                Returns([k |-> "obj", type |-> "fixed", logicalType |-> "duration",
                         by |-> cls, name |-> "datetime.timedelta", size |-> 12])
          [] cls = "DecimalSchema" -> DecimalSchema_data(t)

\* date(1970, 1, 1).toordinal()
EpochOrdinal == 719163

\* the microsecond counts n of this model's time and datetime defaults for
\* which the float product (n / 10**6) * 1e6 falls below n (IEEE 754 doubles:
\* (249 / 10**6) * 1e6 is 248.99999999999997)
InexactMicros == {249}

\* int(delta.total_seconds() * 1e6) for a timedelta of n microseconds: int()
\* truncates the float product
total_seconds_1e6(n) == IF n \in InexactMicros THEN n - 1 ELSE n

\* every default is rendered as it is, whatever the Schema class
make_default_lenient(node, d) == Returns(d)

\* make_default of the Schema class of the node, applied to a Python value
make_default(node, d) ==
    LET cls == node.cls
    IN  CASE cls = "DecimalSchema" ->
                IF d.vt # "Decimal" THEN Raises("AttributeError")
                ELSE LET r == DecimalSchema_make_default(node.py_type, d)
                     IN  IF r.error # NoError THEN Raises(r.error)
                         ELSE Returns([vt |-> "escaped", chars |-> r.value])
          [] cls = "TimeDeltaSchema" -> Raises("ValueError")
          [] cls = "UUIDSchema" -> Returns(PyStr(""))
          [] cls = "DictAsJSONSchema" -> Returns([vt |-> "json", of |-> d])
          [] cls = "PydanticSchema" -> Returns([vt |-> "dict", of |-> d])
          [] cls = "DateSchema" ->
                IF d.vt # "date" THEN Raises("TypeError")
                ELSE Returns(PyInt(d.ordinal - EpochOrdinal))
          [] cls = "TimeSchema" ->
                IF d.vt # "time" THEN Raises("TypeError")
                ELSE Returns(PyInt(total_seconds_1e6(
                         ((d.hour * 60 + d.minute) * 60 + d.second) * 1000000 + d.microsecond)))
          [] cls = "DateTimeSchema" ->
                IF d.vt # "datetime" THEN Raises("AttributeError")
                ELSE IF ~d.aware THEN Raises("TypeError")
                ELSE Returns(PyInt(total_seconds_1e6(d.epoch_microseconds)))
          [] OTHER -> Returns(d)

-----------------------------------------------------------------------------
(* One call of schema(): construction, then rendering.  The pending data()  *)
(* calls are a stack of tasks; the document is the sequence of tokens       *)
(* emitted so far, in document order.                                       *)

DataTask(node, level) == [op |-> "data", node |-> node, level |-> level]
FieldTask(field, level) == [op |-> "field", field |-> field, level |-> level]
DefaultTask(field) == [op |-> "default", field |-> field]
EndTask(of) == [op |-> "end", of |-> of]

NamedClasses == {"EnumSchema", "DataclassSchema", "PydanticSchema", "PlainClassSchema"}
ContainerClasses == {"SequenceSchema", "DictSchema", "UnionSchema"}

Range(seq) == {seq[i] : i \in DOMAIN seq}

\* `self.fullname in names`
InNames_never(name, registry) == FALSE

InNames(name, registry) == name \in Range(registry)

Top == Head(stack)

Rendering(op) == pc = "render" /\ stack # <<>> /\ Top.op = op

\* the exception is swallowed and the call ends as if it had returned
Raise_swallowed(e) ==
    /\ pc' = "done"
    /\ error' = e

Raise(e) ==
    /\ pc' = "raised"
    /\ error' = e

\* schema(), lines 136-138: the names registry is created and the whole tree
\* of Schema objects is built; an exception of the construction ends the call
Construct ==
    /\ pc = "start"
    /\ \E r \in {_schema_obj(py_type, 1)} :
           /\ depth' = r.depth
           /\ IF r.error # NoError
              THEN /\ Raise(r.error)
                   /\ UNCHANGED <<schema_obj, stack>>
              ELSE /\ pc' = "render"
                   /\ schema_obj' = r.node
                   /\ stack' = <<DataTask(r.node, 1)>>
                   /\ UNCHANGED error
    /\ UNCHANGED <<classes, py_type, namespace, options, py_default, names, doc, ret, cache, log>>

\* NamedSchema.data with data_before_deduplication of EnumSchema and
\* RecordSchema: the full name if it is registered, else the name is
\* registered and the definition starts
NamedSchema_data ==
    /\ Rendering("data")
    /\ Top.node.cls \in NamedClasses
    /\ LET node == Top.node
           level == Top.level
       IN  IF InNames(fullname(node), names)
           THEN /\ doc' = Append(doc, StrToken(fullname(node), "NamedSchema"))
                /\ stack' = Tail(stack)
                /\ UNCHANGED names
           ELSE /\ names' = Append(names, fullname(node))
                /\ IF node.cls = "EnumSchema"
                   THEN /\ doc' = Append(doc,
                              [k |-> "enum", name |-> node.name,
                               symbols |-> [i \in DOMAIN node.symbols |-> node.symbols[i].s],
                               default |-> node.symbols[1].s,
                               namespace |-> Schema_namespace(node.py_type),
                               doc |-> DocAttribute(node.py_type)])
                        /\ stack' = Tail(stack)
                   ELSE /\ doc' = Append(doc,
                              [k |-> "record", name |-> node.name,
                               namespace |-> Schema_namespace(node.py_type),
                               doc |-> DocAttribute(node.py_type)])
                        /\ stack' = [i \in DOMAIN node.record_fields |->
                                        FieldTask(node.record_fields[i], level + 1)]
                                    \o <<EndTask("record")>> \o Tail(stack)
    /\ depth' = Max(depth, Top.level)
    /\ UNCHANGED <<pc, classes, py_type, namespace, options, py_default, schema_obj,
                   ret, error, cache, log>>

\* RecordField.data: the field's name (and doc), then its schema's data,
\* then its default if it has one
RecordField_data ==
    /\ Rendering("field")
    /\ LET field == Top.field
       IN  /\ doc' = Append(doc,
                  [k |-> "field", name |-> field.name,
                   doc |-> IF field.docs # "" /\ "NO_DOC" \notin options
                           THEN Some(field.docs) ELSE None])
           /\ stack' = <<DataTask(field.schema, Top.level)>>
                       \o (IF field.default # MISSING THEN <<DefaultTask(field)>> ELSE <<>>)
                       \o Tail(stack)
    /\ UNCHANGED <<pc, classes, py_type, namespace, options, py_default, schema_obj,
                   names, ret, depth, error, cache, log>>

\* RecordField.data, line 825: self.schema.make_default(self.default)
MakeDefault ==
    /\ Rendering("default")
    /\ \E r \in {make_default(Top.field.schema, Top.field.default)} :
           IF r.error # NoError
           THEN /\ Raise(r.error)
                /\ UNCHANGED <<doc, stack>>
           ELSE /\ doc' = Append(doc, [k |-> "default", d |-> r.value])
                /\ stack' = Tail(stack)
                /\ UNCHANGED <<pc, error>>
    /\ UNCHANGED <<classes, py_type, namespace, options, py_default, schema_obj,
                   names, ret, depth, cache, log>>

\* the nested schemas of a container, in the order data() renders them
\* (UnionSchema.item_schemas as sort_item_schemas left them)
Container_data ==
    /\ Rendering("data")
    /\ Top.node.cls \in ContainerClasses
    /\ LET node == Top.node
           of == CASE node.cls = "SequenceSchema" -> "array"
                   [] node.cls = "DictSchema" -> "map"
                   [] node.cls = "UnionSchema" -> "union"
       IN  /\ doc' = Append(doc, [k |-> of])
           /\ stack' = [i \in DOMAIN node.items |-> DataTask(node.items[i], Top.level + 1)]
                       \o <<EndTask(of)>> \o Tail(stack)
    /\ depth' = Max(depth, Top.level)
    /\ UNCHANGED <<pc, classes, py_type, namespace, options, py_default, schema_obj,
                   names, ret, error, cache, log>>

\* data() of a schema without nested schemas
Leaf_data ==
    /\ Rendering("data")
    /\ Top.node.cls \notin NamedClasses \cup ContainerClasses
    /\ \E r \in {LeafData(Top.node)} :
           IF r.error # NoError
           THEN /\ Raise(r.error)
                /\ UNCHANGED <<doc, stack>>
           ELSE /\ doc' = Append(doc, r.value)
                /\ stack' = Tail(stack)
                /\ UNCHANGED <<pc, error>>
    /\ depth' = Max(depth, Top.level)
    /\ UNCHANGED <<classes, py_type, namespace, options, py_default, schema_obj,
                   names, ret, cache, log>>

\* a data() that rendered nested schemas returns: the object or array closes
EndData ==
    /\ Rendering("end")
    /\ doc' = Append(doc, [k |-> "end", of |-> Top.of])
    /\ stack' = Tail(stack)
    /\ UNCHANGED <<pc, classes, py_type, namespace, options, py_default, schema_obj,
                   names, ret, depth, error, cache, log>>

\* schema(), line 140: the schema data is returned
Return ==
    /\ pc = "render"
    /\ stack = <<>>
    /\ pc' = "done"
    /\ ret' = doc
    /\ UNCHANGED <<classes, py_type, namespace, options, py_default, schema_obj,
                   stack, names, doc, depth, error, cache, log>>

Next ==
    \/ Construct
    \/ NamedSchema_data
    \/ RecordField_data
    \/ MakeDefault
    \/ Container_data
    \/ Leaf_data
    \/ EndData
    \/ Return

-----------------------------------------------------------------------------
(* Specification of record graphs: an enum E, a dataclass B and a dataclass *)
(* A defined after B, in module pkg.mod.  A class body names the classes    *)
(* defined before it directly; B can name A, and a class itself, only by a  *)
(* string (forward reference).                                              *)

Module == <<"pkg", "mod">>

FieldSpec(type, default) == [type |-> type, default |-> default]

FieldSpecsB ==
    {FieldSpec(Class("int"), MISSING), FieldSpec(Class("E"), MISSING),
     FieldSpec(Str("A"), MISSING), FieldSpec(Str("B"), MISSING)}

FieldSpecsA ==
    {FieldSpec(Class("B"), MISSING), FieldSpec(Class("E"), MISSING),
     FieldSpec(Str("A"), MISSING), FieldSpec(Alias("list", <<Class("B")>>), MISSING),
     FieldSpec(Optional(Class("B")), PyNone)}

\* the field lists of a class: one or more fields named prefix1, prefix2, ...
\* (the two classes have MaxFields fields in all, at most)
FieldLists(prefix, specs) ==
    UNION {{[i \in 1..n |-> Field(prefix \o ToString(i), f[i].type, f[i].default)] :
               f \in [1..n -> specs]} : n \in 1..(MaxFields - 1)}

Dataclass(name, module, fields, docstring) ==
    ClassInfo("dataclass", name, module, {name, "object"}, fields, <<>>, "typed", docstring)

Enum(name, module, bases, symbols) ==
    ClassInfo("enum", name, module, bases \cup {name, "Enum", "object"}, <<>>, symbols,
              "none", "Create a collection of name/value pairs.")

RecordGraph(fieldsA, fieldsB) ==
    [c \in {"A", "B", "E"} |->
        CASE c = "A" -> Dataclass("A", Module, fieldsA, "Record A")
          [] c = "B" -> Dataclass("B", Module, fieldsB, "")
          [] c = "E" -> Enum("E", Module, {}, <<PyStr("x"), PyStr("y"), PyStr("x")>>)]

\* the state before schema() runs
Start ==
    /\ pc = "start"
    /\ py_default = MISSING
    /\ schema_obj = NoNode
    /\ stack = <<>>
    /\ names = <<>>
    /\ doc = <<>>
    /\ ret = <<>>
    /\ depth = 0
    /\ error = NoError
    /\ cache = {}
    /\ log = <<>>

Init ==
    /\ \E fieldsA \in FieldLists("a", FieldSpecsA), fieldsB \in FieldLists("b", FieldSpecsB) :
          /\ Len(fieldsA) + Len(fieldsB) <= MaxFields
          /\ classes = RecordGraph(fieldsA, fieldsB)
    /\ py_type \in {Class("A"), Class("B")}
    /\ namespace \in {None, Some("ns")}
    /\ options \in {{}, {"NO_AUTO_NAMESPACE"}}
    /\ Start

Spec == Init /\ [][Next]_vars

\* the call runs to its end: no step of it is postponed forever
SpecFair == Init /\ [][Next]_vars /\ WF_vars(Next)

-----------------------------------------------------------------------------
(* Specification of dispatch: one call for each of a collection of type     *)
(* descriptions, under every combination of the schema options              *)

\* the Option flags schema() reads (the JSON_ flags only format the bytes)
SchemaOptions ==
    {"INT_32", "FLOAT_32", "MILLISECONDS", "DEFAULTS_MANDATORY", "LOGICAL_JSON_STRING",
     "NO_AUTO_NAMESPACE", "AUTO_NAMESPACE_MODULE", "NO_DOC", "USE_FIELD_ALIAS"}

PlainClass(name, bases, fields, init_hints) ==
    ClassInfo("plain", name, Module, bases \cup {name, "object"}, fields, <<>>, init_hints, "")

UserClasses ==
    [c \in {"Color", "Level", "Point", "Model", "Plain", "Untyped", "Broken", "MyStr", "MyInt"} |->
        CASE c = "Color" -> Enum("Color", Module, {"str", "Sequence"}, <<PyStr("red"), PyStr("green")>>)
          [] c = "Level" -> Enum("Level", Module, {"int"}, <<PyInt(1), PyInt(2)>>)
          [] c = "Point" ->
                Dataclass("Point", Module,
                          <<Field("x", Class("int"), MISSING),
                            Field("tag", Optional(Class("str")), PyNone)>>, "A point")
          [] c = "Model" ->
                ClassInfo("pydantic", "Model", Module, {"Model", "BaseModel", "object"},
                          << [Field("n", Class("int"), PyInt(0)) EXCEPT
                                 !.alias = "N", !.description = "count"] >>,
                          <<>>, "typed", "A model")
          [] c = "Plain" ->
                PlainClass("Plain", {}, <<Field("name", Class("str"), PyStr(""))>>, "typed")
          [] c = "Untyped" -> PlainClass("Untyped", {}, <<>>, "none")
          [] c = "Broken" -> PlainClass("Broken", {}, <<>>, "NameError")
          [] c = "MyStr" -> PlainClass("MyStr", {"str", "Sequence"}, <<>>, "none")
          [] c = "MyInt" -> PlainClass("MyInt", {"int"}, <<>>, "none")]

PrimitiveClasses ==
    {Class("bool"), Class("bytes"), Class("float"), Class("int"), Class("str"), NoneType}

TypeDescriptions ==
    PrimitiveClasses
    \cup {Class(c) : c \in DOMAIN UserClasses}
    \cup {Class("UUID"), Class("date"), Class("datetime"), Class("time"), Class("timedelta"),
          Class("Decimal"), Class("list"), Class("object"), AnyType, NoneObj,
          Annotated(Class("Decimal"), <<DecimalMeta(4, Some(2))>>),
          Annotated(Class("Decimal"), <<OtherMeta>>),
          DecimalType(4, 2),
          Annotated(Class("int"), <<OtherMeta>>),
          Annotated(Class("Point"), <<OtherMeta>>),
          Alias("dict", <<Class("str"), AnyType>>),
          Alias("dict", <<Class("str"), Class("int")>>),
          Alias("dict", <<Class("int"), Class("str")>>),
          Alias("dict", <<>>),
          Alias("Mapping", <<Class("str"), Class("Point")>>),
          Alias("list", <<Class("int")>>),
          Alias("list", <<>>),
          Alias("list", <<Alias("dict", <<Class("str"), AnyType>>)>>),
          Alias("Sequence", <<Class("Color")>>),
          Alias("set", <<Class("int")>>),
          Optional(Class("int")),
          Alias("Union", <<Class("str"), Class("Point"), NoneType>>),
          Alias("UnionType", <<Class("int"), Class("str")>>),
          Str("Point"), ForwardRef("Point")}

InitDispatch ==
    /\ classes = UserClasses
    /\ py_type \in TypeDescriptions
    /\ namespace \in {None, Some("ns")}
    /\ options \in SUBSET SchemaOptions
    /\ Start

SpecDispatch == InitDispatch /\ [][Next]_vars

-----------------------------------------------------------------------------
(* Specification of union fields: a dataclass R with one field u whose type *)
(* is a union of 2..MaxBranches distinct classes, with or without a default *)

BranchTypes == {Class("str"), Class("int"), Class("bool"), Class("float"), NoneType}

Defaults == {MISSING, PyNone, PyStr("s"), PyInt(1), PyBool(TRUE)}

BranchLists ==
    UNION {{b \in [1..n -> BranchTypes] : \A i, j \in 1..n : i # j => b[i] # b[j]} :
              n \in 2..MaxBranches}

InitUnion ==
    /\ \E origin \in {"Union", "UnionType"}, branches \in BranchLists, default \in Defaults :
          classes = [c \in {"R"} |->
                        Dataclass("R", Module, <<Field("u", Alias(origin, branches), default)>>, "")]
    /\ py_type = Class("R")
    /\ namespace = None
    /\ options \in {{}, {"DEFAULTS_MANDATORY"}}
    /\ Start

SpecUnion == InitUnion /\ [][Next]_vars

-----------------------------------------------------------------------------
(* Specification of the decimal default encoder: every annotated decimal   *)
(* type and every decimal default within the bounds, then make_default.    *)

DecimalTypes ==
    {Annotated(Class("Decimal"), <<DecimalMeta(p, s)>>) :
        p \in 1..MaxPrecision, s \in {None} \cup {Some(k) : k \in 0..MaxScale}}
    \cup {DecimalType(p, s) : p \in 1..MaxPrecision, s \in 0..MaxScale}

ValidDecimalTypes ==
    {t \in DecimalTypes :
        IF t.tag = "annotated"
        THEN DecimalMetaValid(t.meta[1].precision, t.meta[1].scale)
        ELSE DecimalMetaValid(t.ints[1], Some(t.ints[2]))}

\* the variables a method-level specification leaves alone
NoCall ==
    /\ classes = <<>>
    /\ namespace = None
    /\ options = {}
    /\ schema_obj = NoNode
    /\ stack = <<>>
    /\ names = <<>>
    /\ doc = <<>>
    /\ depth = 0
    /\ cache = {}
    /\ log = <<>>

InitDecimal ==
    /\ pc = "start"
    /\ py_type \in ValidDecimalTypes
    /\ py_default \in Decimals
    /\ ret = <<>>
    /\ error = NoError
    /\ NoCall

\* RecordField.data calling self.schema.make_default(self.default) on a DecimalSchema
MakeDecimalDefault ==
    /\ pc = "start"
    /\ LET r == DecimalSchema_make_default(py_type, py_default)
       IN  /\ pc' = IF r.error = NoError THEN "done" ELSE "raised"
           /\ ret' = r.value
           /\ error' = r.error
    /\ UNCHANGED <<classes, py_type, namespace, options, py_default, schema_obj,
                   stack, names, doc, depth, cache, log>>

NextDecimal == MakeDecimalDefault

SpecDecimal == InitDecimal /\ [][NextDecimal]_vars

-----------------------------------------------------------------------------
(* Specification of record fields: a dataclass R of module pkg.mod with one *)
(* or more fields, each drawn from typed fields with and without a default: *)
(* fields that generation accepts, and fields of every kind of validation   *)
(* failure, at the top and inside the classes R's fields name               *)

\* the classes R's fields can name: three dataclasses with one field, and an
\* enum whose members are integers
FieldClasses ==
    [c \in {"Ok", "NoDefault", "Late", "Level"} |->
        CASE c = "Ok" -> Dataclass("Ok", Module, <<Field("v", Class("int"), PyInt(1))>>, "")
          [] c = "NoDefault" ->
                Dataclass("NoDefault", Module, <<Field("v", Class("int"), MISSING)>>, "")
          [] c = "Late" ->
                Dataclass("Late", Module, <<Field("t", Class("timedelta"), PyTimedelta)>>, "")
          [] c = "Level" -> Enum("Level", Module, {}, <<PyInt(1), PyInt(2)>>)]

\* Annotated[decimal.Decimal, DecimalMeta(precision=1)]
Decimal1 == Annotated(Class("Decimal"), <<DecimalMeta(1, None)>>)

\* fields without a default
FieldSpecsMissing ==
    {FieldSpec(t, MISSING) :
        t \in {Class("int"), Class("datetime"), Class("timedelta"), Class("Decimal"),
               Class("Ok"), Class("NoDefault"), Alias("list", <<Class("Late")>>),
               Alias("dict", <<Class("int"), Class("str")>>), Class("Level"),
               Class("object")}}

\* fields with a default
FieldSpecsDefault ==
    {FieldSpec(Class("float"), PyInt(1)),
     FieldSpec(Class("str"), PyNone),
     FieldSpec(Class("time"), PyTime(0, 0, 1, 500)),
     FieldSpec(Class("time"), PyTime(0, 0, 0, 249)),
     FieldSpec(Class("datetime"), PyDatetime(TRUE, 2000000)),
     FieldSpec(Class("datetime"), PyDatetime(FALSE, 2000000)),
     FieldSpec(Class("timedelta"), PyTimedelta),
     FieldSpec(Optional(Class("int")), PyStr("s")),
     FieldSpec(Optional(Class("NoDefault")), PyNone),
     FieldSpec(Str("R"), PyInt(1)),
     FieldSpec(Decimal1, Decimal(0, <<1, 2>>, 0)),
     FieldSpec(Alias("list", <<Class("str")>>), PyList(<<PyInt(1)>>)),
     FieldSpec(Alias("list", <<Class("str")>>), PyList(<<PyStr("a"), PyInt(1)>>))}

FieldSpecsR == FieldSpecsMissing \cup FieldSpecsDefault

RecordR(fields) ==
    [c \in DOMAIN FieldClasses \cup {"R"} |->
        IF c = "R" THEN Dataclass("R", Module, fields, "Record R") ELSE FieldClasses[c]]

InitFields ==
    /\ \E fields \in FieldLists("f", FieldSpecsR) : classes = RecordR(fields)
    /\ py_type = Class("R")
    /\ namespace = None
    /\ options \in SUBSET {"DEFAULTS_MANDATORY", "MILLISECONDS"}
    /\ Start

SpecFields == InitFields /\ [][Next]_vars

-----------------------------------------------------------------------------
(* Specification of generate: a sequence of calls of generate(), which is   *)
(* wrapped in functools.lru_cache, for the types of one record graph, with  *)
(* and without a namespace.  schema() runs when the cache has no entry.     *)

\* the arguments of the call in progress (the key of the cache)
CallKey == <<py_type, namespace, options>>

Cached(key) == {e \in cache : e.key = key}

Outcome(e, value) == [error |-> e, value |-> value]

\* schema(), lines 134-135: `if names is None: names = []`
schema_names_shared(names_arg) == IF names_arg = None THEN names ELSE names_arg[1]

schema_names(names_arg) == IF names_arg = None THEN <<>> ELSE names_arg[1]

CallTypes == {Class("A"), Class("B")}

\* generate(py_type, namespace=..., options=...) is called: the cache returns
\* the result of an earlier call with these arguments, or schema() is entered
\* with names=None
Generate_call ==
    /\ pc = "idle"
    /\ Len(log) < MaxCalls
    /\ \E t \in CallTypes, ns \in {None, Some("ns")} :
          /\ py_type' = t
          /\ namespace' = ns
          /\ IF Cached(<<t, ns, options>>) # {}
             THEN /\ \E e \in Cached(<<t, ns, options>>) :
                        /\ ret' = e.value
                        /\ log' = Append(log, [key |-> e.key,
                                               outcome |-> Outcome(NoError, e.value)])
                  /\ UNCHANGED <<pc, schema_obj, stack, names, doc, depth, error>>
             ELSE /\ pc' = "start"
                  /\ names' = schema_names(None)
                  /\ schema_obj' = NoNode
                  /\ stack' = <<>>
                  /\ doc' = <<>>
                  /\ ret' = <<>>
                  /\ depth' = 0
                  /\ error' = NoError
                  /\ UNCHANGED log
    /\ UNCHANGED <<classes, options, py_default, cache>>

\* schema() returned: generate serialises the schema data (the JSON text is
\* the document's tokens in order), the cache stores the result
Generate_return ==
    /\ pc = "done"
    /\ pc' = "idle"
    /\ cache' = cache \cup {[key |-> CallKey, value |-> ret]}
    /\ log' = Append(log, [key |-> CallKey, outcome |-> Outcome(NoError, ret)])
    /\ UNCHANGED <<classes, py_type, namespace, options, py_default, schema_obj,
                   stack, names, doc, ret, depth, error>>

\* schema() raised: the exception leaves generate, nothing is cached
Generate_raise ==
    /\ pc = "raised"
    /\ pc' = "idle"
    /\ log' = Append(log, [key |-> CallKey, outcome |-> Outcome(error, <<>>)])
    /\ UNCHANGED <<classes, py_type, namespace, options, py_default, schema_obj,
                   stack, names, doc, ret, depth, error, cache>>

NextGenerate ==
    \/ Generate_call
    \/ Generate_return
    \/ Generate_raise
    \/ Construct
    \/ NamedSchema_data
    \/ RecordField_data
    \/ MakeDefault
    \/ Container_data
    \/ Leaf_data
    \/ EndData
    \/ Return

\* B has an optional int field and A a field of class B; or B has a field of the enum
\* E, and A a field of class B and a duration field with a default
CallGraphs ==
    {RecordGraph(<<Field("a1", Class("B"), MISSING)>>,
                 <<Field("b1", Optional(Class("int")), PyNone)>>),
     RecordGraph(<<Field("a1", Class("B"), MISSING),
                   Field("a2", Class("timedelta"), PyTimedelta)>>,
                 <<Field("b1", Class("E"), MISSING)>>)}

InitGenerate ==
    /\ pc = "idle"
    /\ classes \in CallGraphs
    /\ py_type = NoneObj
    /\ namespace = None
    /\ options \in {{}, {"NO_AUTO_NAMESPACE"}}
    /\ py_default = MISSING
    /\ schema_obj = NoNode
    /\ stack = <<>>
    /\ names = <<>>
    /\ doc = <<>>
    /\ ret = <<>>
    /\ depth = 0
    /\ error = NoError
    /\ cache = {}
    /\ log = <<>>

SpecGenerate == InitGenerate /\ [][NextGenerate]_vars

-----------------------------------------------------------------------------
(* Specification of namespaces: a dataclass Outer of module pkg.mod whose   *)
(* fields name a dataclass Inner of module other.sub.m, an enum Kind of     *)
(* module top and a string subclass Label of module lib.strs; with and      *)
(* without a namespace, under the namespace options                         *)

NamespaceClasses ==
    [c \in {"Outer", "Inner", "Kind", "Label"} |->
        CASE c = "Outer" ->
                Dataclass("Outer", <<"pkg", "mod">>,
                          <<Field("inner", Class("Inner"), MISSING),
                            Field("kind", Class("Kind"), MISSING),
                            Field("items", Alias("list", <<Class("Inner")>>), MISSING),
                            Field("label", Class("Label"), MISSING),
                            Field("n", Class("int"), PyInt(1))>>, "")
          [] c = "Inner" ->
                Dataclass("Inner", <<"other", "sub", "m">>,
                          <<Field("kind", Class("Kind"), MISSING)>>, "")
          [] c = "Kind" -> Enum("Kind", <<"top">>, {}, <<PyStr("x"), PyStr("y")>>)
          [] c = "Label" ->
                ClassInfo("plain", "Label", <<"lib", "strs">>,
                          {"Label", "str", "Sequence", "object"}, <<>>, <<>>, "none", "")]

NamespaceTypes ==
    {Class("Outer"), Class("Inner"), Class("Kind"), Class("Label"),
     Annotated(Class("Outer"), <<OtherMeta>>), Alias("list", <<Class("Inner")>>)}

InitNamespace ==
    /\ classes = NamespaceClasses
    /\ py_type \in NamespaceTypes
    /\ namespace \in {None, Some("ns"), Some("")}
    /\ options \in SUBSET {"NO_AUTO_NAMESPACE", "AUTO_NAMESPACE_MODULE"}
    /\ Start

SpecNamespace == InitNamespace /\ [][Next]_vars

-----------------------------------------------------------------------------
(* Specification of enums: an enum E with up to MaxMembers members, whose   *)
(* values are strings or integers and may repeat, generated on its own or   *)
(* as the item type of a field of a dataclass R                             *)

MemberValueSet == {PyStr("x"), PyStr("y"), PyInt(1)}

MemberLists == UNION {[1..n -> MemberValueSet] : n \in 0..MaxMembers}

EnumClasses(members) ==
    [c \in {"E", "R"} |->
        IF c = "E" THEN Enum("E", Module, {}, members)
        ELSE Dataclass("R", Module,
                       <<Field("n", Class("int"), PyInt(1)),
                         Field("es", Alias("list", <<Class("E")>>), MISSING),
                         Field("e", Class("E"), MISSING)>>, "")]

InitEnum ==
    /\ \E members \in MemberLists : classes = EnumClasses(members)
    /\ py_type \in {Class("E"), Class("R")}
    /\ namespace = None
    /\ options \in {{}, {"NO_DOC"}}
    /\ Start

SpecEnum == InitEnum /\ [][Next]_vars

-----------------------------------------------------------------------------
(* Specification of mappings: a mapping type origin[key, value], generated  *)
(* on its own or as the type of a field of a dataclass R                    *)

MappingOrigins == {"dict", "Mapping"}

KeyTypes == {Class("str"), Class("int"), Class("bytes")}

ValueTypes ==
    {AnyType, Class("int"), Class("str"), Alias("list", <<Class("int")>>),
     Alias("dict", <<Class("str"), AnyType>>), Alias("dict", <<Class("int"), Class("str")>>)}

MappingTypes ==
    {Alias(origin, <<key, value>>) :
        origin \in MappingOrigins, key \in KeyTypes, value \in ValueTypes}

MappingClasses(mapping) ==
    [c \in {"R"} |->
        Dataclass("R", Module,
                  <<Field("n", Class("int"), PyInt(1)), Field("m", mapping, MISSING)>>, "")]

InitMapping ==
    /\ \E mapping \in MappingTypes :
          /\ classes = MappingClasses(mapping)
          /\ py_type \in {mapping, Class("R")}
    /\ namespace = None
    /\ options \in {{}, {"LOGICAL_JSON_STRING"}}
    /\ Start

SpecMapping == InitMapping /\ [][Next]_vars

-----------------------------------------------------------------------------
(* Specification of name collisions: a dataclass Outer of module pkg.mod    *)
(* whose fields use two dataclasses that are both named A and two enums     *)
(* that are both named K, defined in the modules pkg.mod and other.m        *)

CollisionFieldSpecs ==
    {FieldSpec(Class("A1"), MISSING), FieldSpec(Class("A2"), MISSING),
     FieldSpec(Class("K1"), MISSING), FieldSpec(Class("K2"), MISSING),
     FieldSpec(Alias("list", <<Class("A2")>>), MISSING),
     FieldSpec(Class("int"), PyInt(1))}

CollisionClasses(fields) ==
    [c \in {"Outer", "A1", "A2", "K1", "K2"} |->
        CASE c = "Outer" -> Dataclass("Outer", Module, fields, "")
          [] c = "A1" -> Dataclass("A", Module, <<Field("v", Class("int"), MISSING)>>, "")
          [] c = "A2" -> Dataclass("A", <<"other", "m">>,
                                   <<Field("w", Class("str"), MISSING)>>, "")
          [] c = "K1" -> Enum("K", Module, {}, <<PyStr("x"), PyStr("y")>>)
          [] c = "K2" -> Enum("K", <<"other", "m">>, {}, <<PyStr("p"), PyStr("q")>>)]

InitCollision ==
    /\ \E fields \in FieldLists("f", CollisionFieldSpecs) : classes = CollisionClasses(fields)
    /\ py_type = Class("Outer")
    /\ namespace \in {None, Some("ns")}
    /\ options \in SUBSET {"NO_AUTO_NAMESPACE", "AUTO_NAMESPACE_MODULE"}
    /\ Start

SpecCollision == InitCollision /\ [][Next]_vars

-----------------------------------------------------------------------------
(* Specification of the defaults of union fields: a dataclass R whose       *)
(* fields are Optional[T] for a logical type T, with a default of type T    *)

Decimal42 == Annotated(Class("Decimal"), <<DecimalMeta(4, Some(2))>>)

UnionDefaultSpecs ==
    {FieldSpec(Optional(Class("date")), PyDate(EpochOrdinal + 1)),
     FieldSpec(Optional(Class("date")), PyNone),
     FieldSpec(Optional(Decimal42), Decimal(0, <<1, 2>>, 0)),
     FieldSpec(Optional(Class("UUID")), PyUUID),
     FieldSpec(Optional(Class("timedelta")), PyTimedelta),
     FieldSpec(Optional(Class("int")), PyInt(1)),
     FieldSpec(Optional(Class("int")), MISSING),
     FieldSpec(Class("date"), PyDate(EpochOrdinal + 1)),
     FieldSpec(Class("E"), MISSING)}

UnionDefaultClasses(fields) ==
    [c \in {"R", "E"} |->
        IF c = "R" THEN Dataclass("R", Module, fields, "")
        ELSE Enum("E", Module, {}, <<PyStr("x"), PyStr("y")>>)]

\* generate(), line 112: orjson.dumps has no encoding for a Decimal or a
\* timedelta left in the schema data and raises TypeError
JSONSerializable(v) == v.vt \notin {"Decimal", "timedelta"}

InitUnionDefault ==
    /\ \E fields \in FieldLists("u", UnionDefaultSpecs) :
          classes = UnionDefaultClasses(fields)
    /\ py_type = Class("R")
    /\ namespace = None
    /\ options \in {{}, {"NO_DOC"}}
    /\ Start

SpecUnionDefault == InitUnionDefault /\ [][Next]_vars

-----------------------------------------------------------------------------
(* Claims about the decimal default encoder (SpecDecimal) *)

\* the precision and scale a decimal type declares (scale 0 when omitted)
DeclaredPrecision(t) == IF t.tag = "annotated" THEN t.meta[1].precision ELSE t.ints[1]
DeclaredScale(t) ==
    IF t.tag = "annotated"
    THEN (IF t.meta[1].scale = None THEN 0 ELSE t.meta[1].scale[1])
    ELSE t.ints[2]

HexValue(c) == CHOOSE i \in 0..15 : HexChars[i + 1] = c

IsHex(c) == \E i \in 0..15 : HexChars[i + 1] = c

\* the bytes written as pairs of hexadecimal characters
RECURSIVE Unhex(_)
Unhex(chars) ==
    IF Len(chars) < 2 THEN <<>>
    ELSE <<16 * HexValue(chars[1]) + HexValue(chars[2])>> \o Unhex(Tail(Tail(chars)))

\* a byte string read as a big-endian unsigned integer, from an accumulator
RECURSIVE BigEndian(_, _)
BigEndian(acc, bytes) ==
    IF bytes = <<>> THEN acc ELSE BigEndian(acc * 256 + Head(bytes), Tail(bytes))

\* a non-empty byte string read as a big-endian signed two's-complement integer
SignedBigEndian(bytes) ==
    BigEndian(IF Head(bytes) >= 128 THEN Head(bytes) - 256 ELSE Head(bytes), Tail(bytes))

\* the mathematical unscaled value: (-1)^sign * digits * 10^(exponent + scale)
UnscaledValue(d, scale) ==
    (IF d.sign = 1 THEN -1 ELSE 1) * DigitsValue(0, d.digits) * Pow(10, d.exp + scale)

Dec314 == Decimal(0, <<3, 1, 4>>, -2)

\* C7: every accepted decimal default is emitted as \u followed by the hex of
\* a byte string whose big-endian signed two's-complement value is
\* (-1)^sign * digits * 10^(exponent + scale); 3.14 at (4, 2) gives backslash-u 013a.
C7_DecimalDefaultEncoding ==
    pc = "done" =>
        /\ Len(ret) >= 4
        /\ ret[1] = "\\" /\ ret[2] = "u"
        /\ Len(ret) % 2 = 0
        /\ \A i \in 3..Len(ret) : IsHex(ret[i])
        /\ SignedBigEndian(Unhex(SubSeq(ret, 3, Len(ret))))
             = UnscaledValue(py_default, DeclaredScale(py_type))
        /\ (DeclaredPrecision(py_type) = 4 /\ DeclaredScale(py_type) = 2 /\ py_default = Dec314)
             => ret = <<"\\", "u", "0", "1", "3", "a">>

\* C7 witness: 3.14 at precision 4, scale 2 has been encoded
C7_Witness ==
    /\ pc = "done"
    /\ py_type = DecimalType(4, 2)
    /\ py_default = Dec314
    /\ ret = <<"\\", "u", "0", "1", "3", "a">>

PrecisionError == "ValueError: precision"
ScaleError == "ValueError: scale"

\* C8: the precision error is raised whenever the digit count exceeds the
\* precision; otherwise the scale error whenever exponent + scale < 0; with
\* both the precision error wins; with neither, no decimal-overflow error.
C8_DecimalOverflowErrors ==
    pc # "start" =>
        LET tooLong == Len(py_default.digits) > DeclaredPrecision(py_type)
            tooFine == py_default.exp + DeclaredScale(py_type) < 0
        IN  /\ tooLong => (pc = "raised" /\ error = PrecisionError)
            /\ (~tooLong /\ tooFine) => (pc = "raised" /\ error = ScaleError)
            /\ (~tooLong /\ ~tooFine) => error \notin {PrecisionError, ScaleError}

\* C8 witness: a default with too many digits and too fine a scale was rejected
\* with the precision error
C8_Witness ==
    /\ pc = "raised"
    /\ Len(py_default.digits) > DeclaredPrecision(py_type)
    /\ py_default.exp + DeclaredScale(py_type) < 0
    /\ error = PrecisionError

-----------------------------------------------------------------------------
(* Reading the document *)

\* the full name a definition declares: namespace.name, or the name alone
DeclaredFullName(tok) ==
    IF Truthy(tok.namespace) THEN tok.namespace[1] \o "." \o tok.name ELSE tok.name

IsDefinition(tok) == tok.k \in {"record", "enum"}

\* a string rendered in place of a named schema by NamedSchema.data
IsReference(tok) == tok.k = "str" /\ tok.by = "NamedSchema"

\* an occurrence of a named schema (record or enum) in the document
IsOccurrence(tok) == IsDefinition(tok) \/ IsReference(tok)

OccurrenceName(tok) == IF IsDefinition(tok) THEN DeclaredFullName(tok) ELSE tok.v

DefinedNames ==
    LET defs == SelectSeq(doc, IsDefinition)
    IN  [i \in DOMAIN defs |-> DeclaredFullName(defs[i])]

\* how many full definitions of the record class c the document holds
Definitions(c) ==
    Cardinality({i \in DOMAIN doc : doc[i].k = "record" /\ doc[i].name = classes[c].name})

-----------------------------------------------------------------------------
(* Claims about record graphs (Spec, SpecFair) *)

\* C1: within one call, the first occurrence of a named schema's full name F
\* in document order is its full definition and registers F in names; every
\* later occurrence of F is the bare string F.
C1_FirstDefinitionThenBareName ==
    /\ \A i \in DOMAIN doc :
          IsOccurrence(doc[i]) =>
             IF \E j \in 1..(i - 1) :
                   IsOccurrence(doc[j]) /\ OccurrenceName(doc[j]) = OccurrenceName(doc[i])
             THEN IsReference(doc[i])
             ELSE IsDefinition(doc[i])
    /\ names = DefinedNames

C1_Witness ==
    /\ pc = "done"
    /\ \E i, j \in DOMAIN doc :
          /\ i < j
          /\ IsDefinition(doc[i])
          /\ IsReference(doc[j])
          /\ doc[j].v = DeclaredFullName(doc[i])

\* a field of class c whose declared type is the class target, named
\* directly or by a forward reference
HasFieldOfType(c, target) ==
    \E i \in DOMAIN classes[c].fields :
        classes[c].fields[i].type \in {Class(target), Str(target), ForwardRef(target)}

IndirectCycle == HasFieldOfType("A", "B") /\ HasFieldOfType("B", "A")

\* C2: when A has a field of type B and B a field of type A, the document
\* generated for A and the one generated for B each hold exactly one full
\* definition of A and exactly one of B.
C2_IndirectCycle ==
    (pc = "done" /\ IndirectCycle) => (Definitions("A") = 1 /\ Definitions("B") = 1)

\* the positions of the document right after the name of the field called name
FieldTypePositions(name) ==
    {j + 1 : j \in {i \in DOMAIN doc : doc[i].k = "field" /\ doc[i].name = name}}

SelfTypedFields(c) ==
    {i \in DOMAIN classes[c].fields : classes[c].fields[i].type \in {Str(c), ForwardRef(c)}}

\* C3: for a record with a field typed as the record itself, the document
\* holds the record's definition exactly once and the type of the self-typed
\* field is the string naming the record, never a definition.
C3_SelfReference ==
    pc = "done" =>
       \A c \in {"A", "B"} :
          (SelfTypedFields(c) # {} /\ (py_type = Class(c) \/ Definitions(c) > 0)) =>
             /\ Definitions(c) = 1
             /\ \A i \in SelfTypedFields(c) :
                   /\ FieldTypePositions(classes[c].fields[i].name) # {}
                   /\ \A j \in FieldTypePositions(classes[c].fields[i].name) :
                         doc[j].k = "str" /\ doc[j].v = classes[c].name

C3_Witness ==
    /\ pc = "done"
    /\ py_type = Class("A")
    /\ SelfTypedFields("A") # {}
    /\ \E j \in DOMAIN doc : doc[j] = StrToken("A", "ForwardSchema")
    /\ Definitions("A") = 1

SetMax(S) == IF S = {} THEN 0 ELSE CHOOSE x \in S : \A y \in S : y <= x

\* the nesting depth of the type graph under t: a record reached again on
\* the same path counts as a reference and is not expanded
RECURSIVE NestingDepth(_, _)
NestingDepth(t, visited) ==
    CASE t.tag \in {"str", "fwdref"} /\ t.name \in DOMAIN classes ->
            NestingDepth(Class(t.name), visited)
      [] t.tag = "class" /\ t.name \in DOMAIN classes ->
            IF t.name \in visited THEN 1
            ELSE 1 + SetMax({NestingDepth(classes[t.name].fields[i].type, visited \cup {t.name}) :
                                i \in DOMAIN classes[t.name].fields})
      [] t.tag = "alias" ->
            1 + SetMax({NestingDepth(t.args[i], visited) : i \in DOMAIN t.args})
      [] t.tag = "annotated" -> NestingDepth(t.args[1], visited)
      [] OTHER -> 1

\* C4: generation (construction, then rendering) terminates for every type
\* graph, cyclic ones included, and the depth of the nested calls never
\* exceeds the nesting depth of the type graph.
C4_Terminates ==
    /\ [](depth <= NestingDepth(py_type, {}))
    /\ <>(pc \in {"done", "raised"})

C4_Witness ==
    /\ pc = "done"
    /\ py_type = Class("A")
    /\ IndirectCycle
    /\ SelfTypedFields("B") # {}
    /\ depth = NestingDepth(py_type, {})
    /\ depth >= 3

-----------------------------------------------------------------------------
(* Claims about dispatch and the primitive schemas (SpecDispatch) *)

\* the Schema classes whose handles_type is true for t
Matching(t) ==
    {cls \in Range(schema_classes) :
        handles_type(cls, t).error = NoError /\ handles_type(cls, t).value}

FirstMatching(t) ==
    schema_classes[CHOOSE i \in DOMAIN schema_classes :
                      /\ schema_classes[i] \in Matching(t)
                      /\ \A j \in 1..(i - 1) : schema_classes[j] \notin Matching(t)]

\* C5: dispatch returns the node of the first class, in trial order, whose
\* handles_type is true, raises TypeNotSupportedError exactly when none is,
\* and testing a predicate yields a boolean, never another error.
C5_DispatchTotal ==
    /\ \A cls \in Range(schema_classes) : handles_type(cls, py_type).error = NoError
    /\ pc # "start" =>
          /\ Matching(py_type) = {} <=> error = "TypeNotSupportedError"
          /\ schema_obj # NoNode => schema_obj.cls = FirstMatching(py_type)

\* C6: for every type description for which generation succeeds, exactly one
\* Schema class has a true handles_type.
C6_PredicatesExclusive ==
    pc = "done" => Cardinality(Matching(py_type)) = 1

\* the primitive table
PrimitiveTable(t) ==
    CASE t = Class("bool") -> "boolean"
      [] t = Class("bytes") -> "bytes"
      [] t = Class("float") -> IF "FLOAT_32" \in options THEN "float" ELSE "double"
      [] t = Class("int") -> IF "INT_32" \in options THEN "int" ELSE "long"
      [] t = Class("str") -> "string"
      [] t = NoneType -> "null"

\* C10: for every primitive input under every combination of options the
\* output is the primitive table entry; INT_32 and FLOAT_32 change the
\* entries of integer and floating point only.
C10_PrimitiveTable ==
    py_type \in PrimitiveClasses =>
       /\ pc # "raised"
       /\ pc = "done" => (Len(ret) = 1 /\ ret[1].k = "str" /\ ret[1].v = PrimitiveTable(py_type))

-----------------------------------------------------------------------------
(* Claims about union fields (SpecUnion) *)

DeclaredBranches == classes["R"].fields[1].type.args

DeclaredDefault == classes["R"].fields[1].default

\* the branches whose type accepts the declared default
Accepting == {i \in DOMAIN DeclaredBranches : check_type(DeclaredDefault, DeclaredBranches[i])}

FirstAccepting == CHOOSE i \in Accepting : \A j \in Accepting : i <= j

\* the sequence with its k-th element moved to position 1, the others in order
Aligned(seq, k) ==
    [i \in DOMAIN seq |-> IF i = 1 THEN seq[k] ELSE IF i <= k THEN seq[i - 1] ELSE seq[i]]

ExpectedBranches ==
    IF DeclaredDefault = MISSING \/ Accepting = {} \/ FirstAccepting = 1
    THEN DeclaredBranches
    ELSE Aligned(DeclaredBranches, FirstAccepting)

\* the branch list of field u as rendered: the tokens after record, field, union
RenderedBranches == [i \in DOMAIN DeclaredBranches |-> doc[3 + i]]

\* C9: the rendered branch list of a union field is the declared list with
\* the first branch accepting the default moved to position 0 and the others
\* in their declared order; it is the declared order when no branch accepts
\* the default, when the first accepting branch is the first branch, or when
\* there is no default.
C9_UnionDefaultAlignment ==
    pc = "done" =>
       /\ doc[3] = [k |-> "union"]
       /\ doc[4 + Len(DeclaredBranches)] = [k |-> "end", of |-> "union"]
       /\ \A i \in DOMAIN DeclaredBranches :
             RenderedBranches[i] =
                StrToken(PrimitiveSchema_data(ExpectedBranches[i]).value, "PrimitiveSchema")

C9_Witness ==
    /\ pc = "done"
    /\ DeclaredDefault # MISSING
    /\ Accepting # {}
    /\ FirstAccepting = Len(DeclaredBranches)
    /\ Len(DeclaredBranches) = 3
    /\ RenderedBranches[1] # RenderedBranches[3]
    /\ ExpectedBranches # DeclaredBranches

-----------------------------------------------------------------------------
(* Claims about record fields and their defaults (SpecFields) *)

\* the classes the construction of R's fields reaches: those R's fields name
ReachedClasses ==
    {"R"} \cup {c \in {"Ok", "NoDefault", "Late"} :
                  \E i \in DOMAIN classes["R"].fields :
                      classes["R"].fields[i].type \in
                          {Class(c), Alias("list", <<Class(c)>>), Optional(Class(c))}}

ReachedFields == UNION {Range(classes[c].fields) : c \in ReachedClasses}

RECURSIVE SeqSum(_)
SeqSum(ns) == IF ns = <<>> THEN 0 ELSE Head(ns) + SeqSum(Tail(ns))

Count(d, ks) == Cardinality({i \in DOMAIN d : d[i].k \in ks})

\* every object or array opened in the document is closed after it
Balanced(d) ==
    /\ Count(d, {"record", "array", "map", "union"}) = Count(d, {"end"})
    /\ \A n \in DOMAIN d :
          Count(SubSeq(d, 1, n), {"record", "array", "map", "union"})
              >= Count(SubSeq(d, 1, n), {"end"})

NumDefaults(fields) == Cardinality({i \in DOMAIN fields : fields[i].default # MISSING})

\* a complete document: it starts with the definition of the type asked for,
\* it is balanced, and every record it defines has all the fields of its
\* class, each with its default if the class declares one
Complete(d) ==
    /\ d # <<>>
    /\ d[1].k = "record" /\ d[1].name = py_type.name
    /\ Balanced(d)
    /\ Count(d, {"field"}) =
          SeqSum([i \in DOMAIN d |->
                     IF d[i].k = "record" THEN Len(classes[d[i].name].fields) ELSE 0])
    /\ Count(d, {"default"}) =
          SeqSum([i \in DOMAIN d |->
                     IF d[i].k = "record" THEN NumDefaults(classes[d[i].name].fields) ELSE 0])

\* the fields that fail validation, by the kind of failure
UnsupportedType(f) == f.type = Class("object")
InvalidMapKey(f) ==
    f.type.tag = "alias" /\ f.type.name = "dict" /\ f.type.args[1] # Class("str")
InvalidEnumMembers(f) == f.type = Class("Level")
MissingDefault(f) == f.default = MISSING /\ "DEFAULTS_MANDATORY" \in options
DefaultMismatch(f) == f.default # MISSING /\ ~check_type(f.default, f.type)
DecimalOverflow(f) == f.type = Decimal1 /\ f.default = Decimal(0, <<1, 2>>, 0)
UnsupportedDefault(f) == f.type = Class("timedelta") /\ f.default # MISSING
NaiveDatetime(f) ==
    f.type = Class("datetime") /\ f.default.vt = "datetime" /\ ~f.default.aware
InvalidDecimalAnnotation(f) == f.type = Class("Decimal")

FieldFails(f) ==
    \/ UnsupportedType(f) \/ InvalidMapKey(f) \/ InvalidEnumMembers(f)
    \/ MissingDefault(f) \/ DefaultMismatch(f) \/ DecimalOverflow(f)
    \/ UnsupportedDefault(f) \/ NaiveDatetime(f) \/ InvalidDecimalAnnotation(f)

\* C11: a call ends in one of two outcomes: it returns the complete document
\* of the whole type tree, or it raises and returns nothing; when a field at
\* any depth fails validation, no document, partial or not, is returned.
C11_CompleteOrNothing ==
    /\ pc # "done" => ret = <<>>
    /\ pc = "raised" => error # NoError
    /\ pc = "done" => (error = NoError /\ ret = doc /\ stack = <<>> /\ Complete(ret))
    /\ (\E f \in ReachedFields : FieldFails(f)) => pc # "done"

\* a field of a nested record fails while the document is half rendered
C11_Witness ==
    /\ pc = "raised"
    /\ error = "ValueError"
    /\ ret = <<>>
    /\ Count(doc, {"record"}) = 2
    /\ \E f \in Range(classes["Late"].fields) : UnsupportedDefault(f)
    /\ \A f \in Range(classes["R"].fields) : ~FieldFails(f)

-----------------------------------------------------------------------------
(* Claims about sequences of generate calls (SpecGenerate) *)

\* every bare name of a named schema in the document follows the full
\* definition of that name in the same document
SelfContained(d) ==
    \A n \in DOMAIN d :
        IsReference(d[n]) =>
           \E m \in 1..(n - 1) : IsDefinition(d[m]) /\ DeclaredFullName(d[m]) = d[n].v

\* C12: the result of a call is a function of (type, namespace, options):
\* whatever calls came before, schema() starts from an empty names registry,
\* two calls with the same arguments have the same outcome, and a type that
\* an earlier call defined is fully defined again, never a bare name only.
C12_FunctionOfArguments ==
    /\ pc = "start" => (names = <<>> /\ doc = <<>>)
    /\ \A i, j \in DOMAIN log : log[i].key = log[j].key => log[i].outcome = log[j].outcome
    /\ \A i \in DOMAIN log : SelfContained(log[i].outcome.value)

\* B was generated, then A with the same namespace: A's document defines B
\* again; and a call was repeated
C12_Witness ==
    \E i, j, k \in DOMAIN log :
        /\ i < j
        /\ log[i].key[1] = Class("B")
        /\ log[j].key[1] = Class("A")
        /\ log[i].key[2] = log[j].key[2]
        /\ log[i].outcome.error = NoError
        /\ log[j].outcome.error = NoError
        /\ \E m \in DOMAIN log[j].outcome.value :
              /\ log[j].outcome.value[m].k = "record"
              /\ log[j].outcome.value[m].name = "B"
        /\ k > j
        /\ log[k].key = log[i].key

-----------------------------------------------------------------------------
(* Claims about the type check of defaults (SpecFields) *)

\* the value v is a value of the declared type t: an instance of the class
\* (an int where a float is declared), of the class a forward reference
\* names, of a member of the union, a list all of whose items are values of
\* the item type
RECURSIVE TypeChecks(_, _)
TypeChecks(v, t) ==
    CASE t.tag = "class" ->
            \/ t.name \in {"Any", "object"}
            \/ t.name \in Info(v.vt).bases
            \/ (t.name = "float" /\ "int" \in Info(v.vt).bases)
      [] t.tag \in {"str", "fwdref"} -> t.name \in Info(v.vt).bases
      [] t.tag = "annotated" -> TypeChecks(v, t.args[1])
      [] t.tag = "alias" /\ t.name \in {"Union", "UnionType"} ->
            \E i \in DOMAIN t.args : TypeChecks(v, t.args[i])
      [] t.tag = "alias" ->
            /\ t.name \in Info(v.vt).bases
            /\ (v.vt = "list" /\ t.args # <<>>) =>
                   \A i \in DOMAIN v.items : TypeChecks(v.items[i], t.args[1])
      [] OTHER -> t = NoneObj /\ v.vt = "NoneType"

IllTypedDefault(f) == f.default # MISSING /\ ~TypeChecks(f.default, f.type)

\* C13: generation fails when the declared default of a record field is not
\* a value of the field's declared type (of the union as a whole, for a
\* union), under every option combination; and the check rejects no default
\* that is a value of the declared type.
C13_DefaultTypeChecked ==
    /\ pc = "done" => \A f \in ReachedFields : ~IllTypedDefault(f)
    /\ error = "TypeCheckError" => \E f \in ReachedFields : IllTypedDefault(f)

-----------------------------------------------------------------------------
(* Claims about mandatory defaults (SpecFields) *)

Opens(d) == Count(d, {"record", "array", "map", "union"})

\* the tokens d[from..to] are complete schemas and fields: all that opens closes
Closed(d, from, to) == Opens(SubSeq(d, from, to)) = Count(SubSeq(d, from, to), {"end"})

\* the definition of the record that the field at position j belongs to: the
\* nearest one before j that is followed by complete fields only
EnclosingRecord(d, j) ==
    CHOOSE r \in 1..(j - 1) :
        /\ d[r].k = "record" /\ Closed(d, r + 1, j - 1)
        /\ \A q \in (r + 1)..(j - 1) : ~(d[q].k = "record" /\ Closed(d, q + 1, j - 1))

\* the field of the class that the field at position j of the document renders
FieldOf(d, j) ==
    CHOOSE f \in Range(classes[d[EnclosingRecord(d, j)].name].fields) : f.name = d[j].name

\* the field at position j has a "default" key: its type is followed by a default
HasDefaultKey(d, j) ==
    \E i \in (j + 1)..Len(d) :
        /\ d[i].k = "default"
        /\ Closed(d, j + 1, i - 1)
        /\ \A n \in (j + 1)..(i - 1) : d[n].k = "field" => ~Closed(d, j + 1, n - 1)

MissingDefaultError == "TypeError: default missing"

\* the failures of construction other than a missing default
OtherConstructionFailure(f) ==
    UnsupportedType(f) \/ InvalidMapKey(f) \/ InvalidEnumMembers(f) \/ DefaultMismatch(f)

\* C14: with DEFAULTS_MANDATORY, generation fails with the missing-default
\* error exactly when a record field that construction reaches, at any
\* depth, declares no default; without the option a missing default never
\* fails, and the field is rendered without a default key.
C14_MandatoryDefaults ==
    /\ ("DEFAULTS_MANDATORY" \in options /\ pc \in {"render", "done"}) =>
          \A f \in ReachedFields : f.default # MISSING
    /\ ("DEFAULTS_MANDATORY" \in options /\ pc = "raised"
          /\ (\E f \in ReachedFields : f.default = MISSING)
          /\ (\A f \in ReachedFields : ~OtherConstructionFailure(f))) =>
          error = MissingDefaultError
    /\ error = MissingDefaultError =>
          ("DEFAULTS_MANDATORY" \in options /\ \E f \in ReachedFields : f.default = MISSING)
    /\ pc = "done" =>
          \A j \in DOMAIN ret :
              ret[j].k = "field" => (HasDefaultKey(ret, j) <=> FieldOf(ret, j).default # MISSING)

\* every field of R has a default and the field of a nested record has none
C14_Witness ==
    /\ pc = "raised"
    /\ error = MissingDefaultError
    /\ \A f \in Range(classes["R"].fields) : f.default # MISSING
    /\ "NoDefault" \in ReachedClasses

-----------------------------------------------------------------------------
(* Claims about namespaces (SpecNamespace) *)

\* the namespace of a named schema of class c, by the rule: the namespace
\* passed to the call; else none under NO_AUTO_NAMESPACE; else the module
\* that declares c, in full under AUTO_NAMESPACE_MODULE, else its top-level
\* package
ExpectedNamespace(c) ==
    IF namespace # None THEN namespace
    ELSE IF "NO_AUTO_NAMESPACE" \in options THEN None
    ELSE IF "AUTO_NAMESPACE_MODULE" \in options THEN Some(Join(classes[c].module))
    ELSE Some(classes[c].module[1])

ExpectedFullName(c) ==
    IF ExpectedNamespace(c) \in {None, Some("")} THEN c
    ELSE ExpectedNamespace(c)[1] \o "." \o c

\* C15: the namespace of every named node, at any depth, follows one rule:
\* the explicit namespace if there is one (for every nested record and enum,
\* whatever its module); else none under NO_AUTO_NAMESPACE (also with
\* AUTO_NAMESPACE_MODULE); else the node's own declaring module, as the
\* dotted path under AUTO_NAMESPACE_MODULE and as its first segment if not.
C15_NamespaceRule ==
    \A i \in DOMAIN doc :
        /\ IsDefinition(doc[i]) => doc[i].namespace = ExpectedNamespace(doc[i].name)
        /\ IsReference(doc[i]) => \E c \in DOMAIN classes : doc[i].v = ExpectedFullName(c)
        /\ (doc[i].k = "obj" /\ doc[i].by = "StrSubclassSchema") =>
               doc[i].namedString = ExpectedFullName("Label")

\* records and an enum of three modules in one document, each with the
\* namespace of its own module
C15_Witness ==
    /\ pc = "done"
    /\ namespace = None
    /\ options = {"AUTO_NAMESPACE_MODULE"}
    /\ \E i, j, k \in DOMAIN ret :
          /\ ret[i].k = "record" /\ ret[i].namespace = Some("pkg.mod")
          /\ ret[j].k = "record" /\ ret[j].namespace = Some("other.sub.m")
          /\ ret[k].k = "enum" /\ ret[k].namespace = Some("top")

-----------------------------------------------------------------------------
(* Claims about enums (SpecEnum) *)

\* the declared values in declaration order, without those that repeat an
\* earlier one
RECURSIVE FirstDeclared(_)
FirstDeclared(vs) ==
    IF vs = <<>> THEN <<>>
    ELSE LET before == SubSeq(vs, 1, Len(vs) - 1)
         IN  IF vs[Len(vs)] \in Range(before) THEN FirstDeclared(before)
             ELSE Append(FirstDeclared(before), vs[Len(vs)])

AcceptableEnum(c) ==
    /\ classes[c].symbols # <<>>
    /\ \A i \in DOMAIN classes[c].symbols : classes[c].symbols[i].vt = "str"

EnumMembersError == "TypeError: enum members must be strings"

\* C16: the symbols of an enum that generation accepts are its member values
\* in declaration order, without the members that repeat an earlier value;
\* there is no duplicate and at least one symbol, and the default is the
\* first symbol.  An enum with a member that is not a string, or without
\* members, is rejected with an error.
C16_EnumSymbols ==
    /\ \A i \in DOMAIN doc :
          doc[i].k = "enum" =>
             /\ doc[i].symbols =
                   [n \in DOMAIN FirstDeclared(classes[doc[i].name].symbols) |->
                       FirstDeclared(classes[doc[i].name].symbols)[n].s]
             /\ \A a, b \in DOMAIN doc[i].symbols :
                   a # b => doc[i].symbols[a] # doc[i].symbols[b]
             /\ Len(doc[i].symbols) >= 1
             /\ doc[i].default = doc[i].symbols[1]
    /\ ~AcceptableEnum("E") => pc \in {"start", "raised"}
    /\ (~AcceptableEnum("E") /\ pc = "raised") => error = EnumMembersError
    /\ AcceptableEnum("E") => pc # "raised"

\* an enum whose third member repeats the value of the first
C16_Witness ==
    /\ pc = "done"
    /\ Len(classes["E"].symbols) = 3
    /\ classes["E"].symbols[3] = classes["E"].symbols[1]
    /\ classes["E"].symbols[2] # classes["E"].symbols[1]
    /\ \E i \in DOMAIN ret : ret[i].k = "enum" /\ Len(ret[i].symbols) = 2

-----------------------------------------------------------------------------
(* Claims about mappings (SpecMapping) *)

\* the mapping type of the call: the type of R's field m
TheMapping == classes["R"].fields[2].type

KeyType == TheMapping.args[1]
ValueType == TheMapping.args[2]

MapKeyError == "TypeError: non-string keys"

\* the schema of the value types that have one
ValuesSchema(v) ==
    CASE v = Class("int") -> <<StrToken("long", "PrimitiveSchema")>>
      [] v = Class("str") -> <<StrToken("string", "PrimitiveSchema")>>
      [] v = Alias("list", <<Class("int")>>) ->
            <<[k |-> "array"], StrToken("long", "PrimitiveSchema"),
              [k |-> "end", of |-> "array"]>>
      [] v = Alias("dict", <<Class("str"), AnyType>>) ->
            <<ObjToken(IF "LOGICAL_JSON_STRING" \in options THEN "string" ELSE "bytes",
                       "json", "DictAsJSONSchema")>>

\* the part of the document that renders the mapping
RenderedMapping ==
    IF py_type = TheMapping THEN ret
    ELSE SubSeq(ret, 6, Len(ret) - 1)

\* C17: a mapping whose key type is not str fails with the invalid-map-key
\* error, whatever its value type; a str-keyed mapping with Any values is
\* rendered as the json logical type; a str-keyed mapping with another value
\* type V is rendered as a map whose values are the schema of V.
C17_Mappings ==
    /\ KeyType # Class("str") => pc \in {"start", "raised"}
    /\ (KeyType # Class("str") /\ pc = "raised") => error = MapKeyError
    /\ (KeyType = Class("str") /\ ValueType = AnyType) => pc # "raised"
    /\ (KeyType = Class("str") /\ ValueType = AnyType /\ pc = "done") =>
          /\ Len(RenderedMapping) = 1
          /\ RenderedMapping[1].k = "obj"
          /\ RenderedMapping[1].logicalType = "json"
    /\ (KeyType = Class("str") /\ ValueType \notin {AnyType, Alias("dict", <<Class("int"), Class("str")>>)}) =>
          /\ pc # "raised"
          /\ pc = "done" =>
                RenderedMapping =
                    <<[k |-> "map"]>> \o ValuesSchema(ValueType) \o <<[k |-> "end", of |-> "map"]>>

-----------------------------------------------------------------------------
(* Claims about the defaults of time and datetime fields (SpecFields) *)

\* microseconds since midnight of a time, since the epoch of a datetime
ElapsedMicroseconds(v) ==
    IF v.vt = "time"
    THEN ((v.hour * 60 + v.minute) * 60 + v.second) * 1000000 + v.microsecond
    ELSE v.epoch_microseconds

\* the elapsed time in the unit of the logical type of the call's options
ElapsedUnits(v) ==
    IF "MILLISECONDS" \in options
    THEN ElapsedMicroseconds(v) \div 1000
    ELSE ElapsedMicroseconds(v)

\* C18: the rendered default of a time field is the number of units since
\* midnight, and that of a timezone-aware datetime field the number of units
\* since the epoch, in the unit of the field's logical type: milliseconds
\* when MILLISECONDS is set, microseconds otherwise.
C18_DefaultInUnitsOfLogicalType ==
    pc = "done" =>
        \A j \in DOMAIN ret :
            (/\ ret[j].k = "field"
             /\ FieldOf(ret, j).type \in {Class("time"), Class("datetime")}
             /\ FieldOf(ret, j).default # MISSING) =>
                /\ ret[j + 2].k = "default"
                /\ ret[j + 2].d = PyInt(ElapsedUnits(FieldOf(ret, j).default))

-----------------------------------------------------------------------------
(* Claims about the defaults of duration and datetime fields (SpecFields) *)

DurationDefaultError == "ValueError"
NaiveDatetimeError == "TypeError"

\* a field of duration or datetime type that declares nothing C19 refuses
TemporalAndAccepted(f) ==
    /\ f.type \in {Class("timedelta"), Class("datetime")}
    /\ f.default = MISSING => "DEFAULTS_MANDATORY" \notin options
    /\ f.default # MISSING => (f.type = Class("datetime") /\ f.default.aware)

\* C19: generation fails for every record field of duration type that
\* declares a default and for every field of datetime type whose default has
\* no timezone; a timezone-aware datetime default never fails for this
\* reason, and the same types without a default never fail.
C19_UnsupportedDefaults ==
    /\ (\E f \in ReachedFields : UnsupportedDefault(f) \/ NaiveDatetime(f)) => pc # "done"
    /\ error = DurationDefaultError => \E f \in ReachedFields : UnsupportedDefault(f)
    /\ error = NaiveDatetimeError => \E f \in ReachedFields : NaiveDatetime(f)
    /\ (\A f \in Range(classes["R"].fields) : TemporalAndAccepted(f)) => pc # "raised"

\* the aware datetime default of the first field was rendered, and then the
\* default of the duration field ended the call
C19_Witness ==
    /\ pc = "raised"
    /\ error = DurationDefaultError
    /\ Len(classes["R"].fields) = 2
    /\ classes["R"].fields[1].type = Class("datetime")
    /\ classes["R"].fields[1].default = PyDatetime(TRUE, 2000000)
    /\ UnsupportedDefault(classes["R"].fields[2])
    /\ \E j \in DOMAIN doc : doc[j] = [k |-> "default", d |-> PyInt(2000000)]

-----------------------------------------------------------------------------
(* Claims about the schema of a time type (SpecDispatch) *)

\* C20: with the MILLISECONDS option the schema of a time type is
\* {"type": "long", "logicalType": "time-millis"}; without the option it is
\* {"type": "long", "logicalType": "time-micros"}.
C20_TimeSchema ==
    (py_type = Class("time") /\ pc = "done") =>
        /\ Len(ret) = 1
        /\ ret[1].k = "obj"
        /\ ret[1].type = "long"
        /\ ret[1].logicalType =
              (IF "MILLISECONDS" \in options THEN "time-millis" ELSE "time-micros")

-----------------------------------------------------------------------------
(* Claims about the definitions of named schemas (SpecFields) *)

\* the fixed schema that TimeDeltaSchema.data emits
IsFixed(tok) == tok.k = "obj" /\ tok.type = "fixed"

\* a full definition of an Avro named schema: record, enum or fixed
IsNamedDefinition(tok) == IsDefinition(tok) \/ IsFixed(tok)

DefinitionName(tok) == IF IsFixed(tok) THEN tok.name ELSE DeclaredFullName(tok)

\* C21: in every document each named schema (record, enum, or the fixed
\* schema datetime.timedelta of a duration) is fully defined at most once,
\* also when the type tree uses it in several places.
C21_DefinedAtMostOnce ==
    \A i, j \in DOMAIN doc :
        (i < j /\ IsNamedDefinition(doc[i]) /\ IsNamedDefinition(doc[j])) =>
            DefinitionName(doc[i]) # DefinitionName(doc[j])

-----------------------------------------------------------------------------
(* Claims about bare-name references (Spec) *)

\* a string emitted in place of a named schema: by the deduplication of
\* NamedSchema.data, or by ForwardSchema.data
IsBareName(tok) == tok.k = "str" /\ tok.by \in {"NamedSchema", "ForwardSchema"}

\* the full name a bare name stands for: a name without namespace is read
\* in the namespace of the record that encloses it
ResolvedName(d, j) ==
    IF d[j].by = "NamedSchema" THEN d[j].v
    ELSE LET ns == d[EnclosingRecord(d, j)].namespace
         IN  IF Truthy(ns) THEN ns[1] \o "." \o d[j].v ELSE d[j].v

\* C22: every bare name emitted in place of a named schema, by the
\* deduplication or by a forward reference, names a schema whose full name is
\* in the names registry when it is emitted: its full definition starts
\* earlier in the document, and no document refers to a name it never
\* defines.
C22_ReferencesDefined ==
    \A j \in DOMAIN doc :
        IsBareName(doc[j]) =>
            /\ ResolvedName(doc, j) \in Range(names)
            /\ \E i \in 1..(j - 1) :
                  IsDefinition(doc[i]) /\ DeclaredFullName(doc[i]) = ResolvedName(doc, j)

-----------------------------------------------------------------------------
(* Claims about colliding full names (SpecCollision) *)

\* the type description that the occurrence at position p of the document
\* renders: the type of the field it follows, or the item type of its list
OccurrenceType(d, p) ==
    IF d[p - 1].k = "field" THEN FieldOf(d, p - 1).type
    ELSE FieldOf(d, p - 2).type.args[1]

\* C23: whenever a record or enum is rendered as a bare name, the full
\* definition emitted earlier under that full name was generated from the
\* same type description: two distinct types with the same full name are
\* never collapsed into one definition.
C23_NeverCollapsed ==
    \A j \in DOMAIN doc :
        IsReference(doc[j]) =>
            \E i \in 2..(j - 1) :
                /\ IsDefinition(doc[i])
                /\ DeclaredFullName(doc[i]) = doc[j].v
                /\ OccurrenceType(doc, i) = OccurrenceType(doc, j)

-----------------------------------------------------------------------------
(* Claims about the names registry (Spec) *)

IsPrefix(s, t) == Len(s) <= Len(t) /\ SubSeq(t, 1, Len(s)) = s

NoDuplicates(s) == \A i, j \in DOMAIN s : s[i] = s[j] => i = j

\* the full names of the records and enums under the types ts, in
\* depth-first, field-declaration order, each once; acc holds those found
RECURSIVE DepthFirstNames(_, _)
DepthFirstNames(ts, acc) ==
    IF ts = <<>> THEN acc
    ELSE LET t == Head(ts)
         IN  CASE t.tag = "class" /\ t.name \in DOMAIN classes ->
                     IF ExpectedFullName(t.name) \in Range(acc)
                     THEN DepthFirstNames(Tail(ts), acc)
                     ELSE DepthFirstNames(
                              [i \in DOMAIN classes[t.name].fields |->
                                  classes[t.name].fields[i].type] \o Tail(ts),
                              Append(acc, ExpectedFullName(t.name)))
               [] t.tag \in {"alias", "annotated"} ->
                     DepthFirstNames(t.args \o Tail(ts), acc)
               [] OTHER -> DepthFirstNames(Tail(ts), acc)

\* C24: at every step of a call the names registry only grows (nothing is
\* removed or reordered), never holds a full name twice, and is, in order,
\* the sequence of the full names of the records and enums whose definitions
\* have started so far, in depth-first, field-declaration order.
C24_RegistryAppendOnly ==
    /\ [](/\ NoDuplicates(names)
          /\ names = DefinedNames
          /\ IsPrefix(names, DepthFirstNames(<<py_type>>, <<>>))
          /\ pc = "done" => names = DepthFirstNames(<<py_type>>, <<>>))
    /\ [][IsPrefix(names, names')]_vars

\* A, B and E are all defined, and a repeated use left the registry as it was
C24_Witness ==
    /\ pc = "done"
    /\ py_type = Class("A")
    /\ Len(names) = 3
    /\ \E j \in DOMAIN doc : IsReference(doc[j])

-----------------------------------------------------------------------------
(* Claims about the defaults of union fields (SpecUnionDefault) *)

IsUnion(t) == t.tag = "alias" /\ t.name = "Union"

\* the position of the default of the field at position j of the document
DefaultPosition(d, j) ==
    CHOOSE i \in (j + 1)..Len(d) :
        d[i].k = "default" /\ \A n \in (j + 1)..(i - 1) : d[n].k # "default"

\* the branch of the union that the default is aligned with
AlignedBranch(f) ==
    f.type.args[CHOOSE i \in DOMAIN f.type.args :
                    /\ check_type(f.default, f.type.args[i])
                    /\ \A n \in 1..(i - 1) : ~check_type(f.default, f.type.args[n])]

\* the encoding of the default by the default encoder of its branch
BranchEncoding(f) ==
    CASE AlignedBranch(f) = Class("date") -> PyInt(f.default.ordinal - EpochOrdinal)
      [] AlignedBranch(f) = Class("UUID") -> PyStr("")
      [] AlignedBranch(f) = Decimal42 ->
            [vt |-> "escaped",
             chars |-> DecimalSchema_make_default(Decimal42, f.default).value]
      [] OTHER -> f.default

\* generate() returns: schema() has returned a document that can be dumped
GenerateReturns ==
    pc = "done" /\ \A i \in DOMAIN ret : ret[i].k = "default" => JSONSerializable(ret[i].d)

\* C25: for every record field whose schema is a union and that declares a
\* default, the rendered default is the encoding by the default encoder of
\* the union's first (aligned) branch: days since the epoch for a date
\* branch, escaped bytes for a decimal branch, the empty string for a UUID
\* branch; generation fails when that branch is a duration.
C25_UnionDefaultEncoding ==
    /\ pc = "done" =>
          \A j \in DOMAIN ret :
              (/\ ret[j].k = "field"
               /\ IsUnion(FieldOf(ret, j).type)
               /\ FieldOf(ret, j).default # MISSING
               /\ AlignedBranch(FieldOf(ret, j)) # Class("timedelta")) =>
                  ret[DefaultPosition(ret, j)].d = BranchEncoding(FieldOf(ret, j))
    /\ (\E f \in Range(classes["R"].fields) :
            /\ IsUnion(f.type) /\ f.default # MISSING
            /\ AlignedBranch(f) = Class("timedelta")) => ~GenerateReturns

-----------------------------------------------------------------------------
(* Claims about the representability of decimal defaults (SpecDecimal) *)

\* the number of decimal digits of a non-negative integer
RECURSIVE NumDigits(_)
NumDigits(n) == IF n < 10 THEN 1 ELSE 1 + NumDigits(n \div 10)

\* digits * 10^(exponent + scale) of the default of the call
UnscaledMagnitude ==
    DigitsValue(0, py_default.digits) * Pow(10, py_default.exp + DeclaredScale(py_type))

\* C26: for every decimal default that the encoder accepts for a declared
\* (precision, scale), the unscaled integer digits * 10^(exponent + scale)
\* has at most precision decimal digits: 123 at precision 4, scale 2, whose
\* unscaled value 12300 has 5 digits, is rejected.
C26_AcceptedDefaultRepresentable ==
    pc = "done" => NumDigits(UnscaledMagnitude) <= DeclaredPrecision(py_type)

-----------------------------------------------------------------------------
(* Claims about the byte length of decimal defaults (SpecDecimal) *)

\* v is a value of the signed two's-complement integers of n bytes
InSignedRange(v, n) == 0 - Pow(2, 8 * n - 1) <= v /\ v < Pow(2, 8 * n - 1)

\* the number of bytes of the encoding returned
EncodedLength == (Len(ret) - 2) \div 2

SignedUnscaled == UnscaledValue(py_default, DeclaredScale(py_type))

\* C27: for every accepted decimal default, positive, negative or zero, the
\* byte length (bitLength(|unscaled|) + 8) div 8 is sufficient for the signed
\* conversion (no overflow) and is minimal: no shorter byte string encodes
\* the same signed integer.
C27_ByteLengthMinimal ==
    /\ error # "OverflowError"
    /\ pc = "done" =>
          /\ EncodedLength = (bit_length(UnscaledMagnitude) + 8) \div 8
          /\ InSignedRange(SignedUnscaled, EncodedLength)
          /\ \A n \in 1..(EncodedLength - 1) : ~InSignedRange(SignedUnscaled, n)

-----------------------------------------------------------------------------
(* Claims about the escaped form of decimal defaults (SpecDecimal) *)

\* the i-th of the n bytes of the big-endian two's-complement form of v
ByteOf(v, n, i) == (v \div Pow(256, n - i)) % 256

\* one escaped code point for a byte: backslash, u and four hexadecimal digits
EscapedCodePoint(b) ==
    <<"\\", "u", "0", "0", HexChars[(b \div 16) + 1], HexChars[(b % 16) + 1]>>

RECURSIVE EscapedBytes(_, _, _)
EscapedBytes(v, n, i) ==
    IF i > n THEN <<>>
    ELSE EscapedCodePoint(ByteOf(v, n, i)) \o EscapedBytes(v, n, i + 1)

\* C28: for every accepted decimal default whose encoding is n bytes long,
\* the rendered default consists of n escaped code points, one per output
\* byte, each with the value 0..255 of that byte, for every n >= 1.
C28_OneCodePointPerByte ==
    pc = "done" =>
        LET n == (bit_length(UnscaledMagnitude) + 8) \div 8
        IN  ret = EscapedBytes(SignedUnscaled, n, 1)

-----------------------------------------------------------------------------
(* Claims about the order of dispatch (SpecDispatch) *)

\* the rank of a Schema class in the order of the claim: primitives and
\* logical types, then containers, then the union, then the named variants
VariantRank(cls) ==
    CASE cls \in {"SequenceSchema", "DictSchema"} -> 2
      [] cls = "UnionSchema" -> 3
      [] cls \in NamedClasses -> 4
      [] OTHER -> 1

\* C29: dispatch tests the variants in a fixed order in which every
\* primitive and logical-type variant comes before every container variant,
\* containers before the union variant, and the union variant before every
\* named variant; so a type accepted by a primitive and by a named variant
\* (an enum that also subclasses int) is dispatched to the primitive one.
C29_DispatchOrder ==
    pc # "start" =>
        /\ \A i, j \in DOMAIN schema_classes :
              i < j => VariantRank(schema_classes[i]) <= VariantRank(schema_classes[j])
        /\ Dispatch(py_type, 1).error = NoError =>
              \A cls \in Matching(py_type) :
                  VariantRank(Dispatch(py_type, 1).cls) <= VariantRank(cls)
        /\ py_type = Class("Level") => Dispatch(py_type, 1).cls = "PrimitiveSchema"

-----------------------------------------------------------------------------
(* Claims about the order of validation (SpecFields) *)

\* a field that construction refuses
ConstructionViolation(f) ==
    \/ UnsupportedType(f) \/ InvalidMapKey(f) \/ InvalidEnumMembers(f)
    \/ MissingDefault(f) \/ DefaultMismatch(f)

\* a field that rendering refuses
RenderingViolation(f) ==
    \/ DecimalOverflow(f) \/ NaiveDatetime(f) \/ UnsupportedDefault(f)
    \/ InvalidDecimalAnnotation(f)

ConstructionErrors ==
    {"TypeNotSupportedError", MapKeyError, EnumMembersError, MissingDefaultError,
     "TypeCheckError"}

\* C30: in one call all construction-time validation of the whole type tree
\* (unsupported nested type, non-string map key, non-string enum member,
\* missing mandatory default, default type mismatch) completes before any
\* name is registered and before any default is encoded; so when a type has
\* a construction-time and a rendering-time violation, the construction-time
\* error is the one raised, whatever the order of the fields.
C30_ConstructionBeforeRendering ==
    /\ (\E f \in ReachedFields : ConstructionViolation(f)) =>
          /\ pc \in {"start", "raised"}
          /\ names = <<>>
          /\ doc = <<>>
          /\ pc = "raised" => error \in ConstructionErrors
    /\ (names # <<>> \/ doc # <<>>) => error \notin ConstructionErrors

\* the first field has a rendering-time violation, the second one a
\* construction-time violation, and the construction-time error was raised
C30_Witness ==
    /\ pc = "raised"
    /\ Len(classes["R"].fields) = 2
    /\ RenderingViolation(classes["R"].fields[1])
    /\ ~ConstructionViolation(classes["R"].fields[1])
    /\ ConstructionViolation(classes["R"].fields[2])
    /\ error \in ConstructionErrors
    /\ names = <<>>
    /\ doc = <<>>

====
